---- MODULE Spec2Model ----
(***************************************************************************)
(* AmchiScript: the tree-walking interpreter (client/src/interpreter.ts,   *)
(* first revision in the file, lines 1-259) over the flat Environment of   *)
(* client/src/environment.ts, as a small-step machine.  Every pending      *)
(* JavaScript activation (a loop in interpret, a try block, a half         *)
(* evaluated expression) is one frame of `stack`; `ctrl` says what the     *)
(* interpreter does next.  In front of it stand the lexer (lexer.ts, the   *)
(* revision with the "chala suru karu" markers) and the recursive-descent  *)
(* parser (src/parser.ts): both are synchronous functions and are          *)
(* operators here, applied by the actions Tokenize and Parse.              *)
(***************************************************************************)
EXTENDS Integers, Sequences, FiniteSets, TLC

VARIABLES
    source,       \* the source text handed to new Lexer(), when the run starts from text
    tokens,       \* what tokenize() gave: nothing yet, a token list, or a thrown Error
    parsed,       \* what parse() gave: nothing yet, a Program, or a thrown Error
    program,      \* Program.body handed to interpret()
    options,      \* constructor options: the input provider
    environment,  \* Interpreter.environment (the current Environment object)
    stack,        \* pending activations, innermost last
    ctrl,         \* what runs next: a statement, an expression, a value, a signal
    output,       \* every string sent to the output sink, in order
    errlog,       \* every console.error of interpret(), in order
    outcome       \* how interpret() ended: "none", "returned" or "thrown"

vars == <<source, tokens, parsed, program, options, environment, stack, ctrl, output, errlog, outcome>>

(***************************************************************************)
(* Bounds of the model.                                                    *)
(***************************************************************************)
MaxParams == 2   \* longest parameter list of a declared function
MaxArgs == 2     \* longest argument list of a call
MaxCount == 3    \* largest limit N of the counting loop

(***************************************************************************)
(* Runtime values.  A JavaScript string is a sequence of one-character     *)
(* strings, so that conversions are computed, not looked up.               *)
(***************************************************************************)
Num(n) == [t |-> "num", n |-> n]
NaN == [t |-> "nan"]
Str(s) == [t |-> "str", s |-> s]
Bool(b) == [t |-> "bool", b |-> b]
Null == [t |-> "null"]
Undefined == [t |-> "undef"]
FuncValue(decl) == [t |-> "func", decl |-> decl]

DigitChars == <<"0", "1", "2", "3", "4", "5", "6", "7", "8", "9">>

IsDigit(c) == \E i \in 1..10 : DigitChars[i] = c

DigitVal(c) == (CHOOSE i \in 1..10 : DigitChars[i] = c) - 1

RECURSIVE TrimLeft(_)
TrimLeft(s) == IF s # <<>> /\ Head(s) = " " THEN TrimLeft(Tail(s)) ELSE s

RECURSIVE TrimRight(_)
TrimRight(s) ==
    IF s # <<>> /\ s[Len(s)] = " " THEN TrimRight(SubSeq(s, 1, Len(s) - 1)) ELSE s

RECURSIVE DigitsValue(_)
DigitsValue(s) ==
    IF s = <<>> THEN 0
    ELSE 10 * DigitsValue(SubSeq(s, 1, Len(s) - 1)) + DigitVal(s[Len(s)])

AllDigits(s) == s # <<>> /\ \A i \in 1..Len(s) : IsDigit(s[i])

\* Number(text) for texts of digits, blanks, a sign and letters (no '.', no
\* exponent, no radix prefix): blanks are trimmed, the empty text is 0.
NumberOfString(s) ==
    LET t == TrimRight(TrimLeft(s)) IN
    IF t = <<>> THEN Num(0)
    ELSE IF AllDigits(t) THEN Num(DigitsValue(t))
    ELSE IF Head(t) = "-" /\ AllDigits(Tail(t)) THEN Num(0 - DigitsValue(Tail(t)))
    ELSE IF Head(t) = "+" /\ AllDigits(Tail(t)) THEN Num(DigitsValue(Tail(t)))
    ELSE NaN

RECURSIVE NatToString(_)
NatToString(n) ==
    IF n < 10 THEN <<DigitChars[n + 1]>>
    ELSE NatToString(n \div 10) \o <<DigitChars[(n % 10) + 1]>>

ObjectString ==
    <<"[", "o", "b", "j", "e", "c", "t", " ", "O", "b", "j", "e", "c", "t", "]">>

\* String(value)
ToStringJS(v) ==
    CASE v.t = "num" -> IF v.n < 0 THEN <<"-">> \o NatToString(0 - v.n) ELSE NatToString(v.n)
      [] v.t = "nan" -> <<"N", "a", "N">>
      [] v.t = "str" -> v.s
      [] v.t = "bool" -> IF v.b THEN <<"t", "r", "u", "e">> ELSE <<"f", "a", "l", "s", "e">>
      [] v.t = "null" -> <<"n", "u", "l", "l">>
      [] v.t = "undef" -> <<"u", "n", "d", "e", "f", "i", "n", "e", "d">>
      [] v.t = "func" -> ObjectString

\* Number(value)
ToNumberJS(v) ==
    CASE v.t = "num" -> v
      [] v.t = "nan" -> NaN
      [] v.t = "str" -> NumberOfString(v.s)
      [] v.t = "bool" -> IF v.b THEN Num(1) ELSE Num(0)
      [] v.t = "null" -> Num(0)
      [] v.t = "undef" -> NaN
      [] v.t = "func" -> NaN

\* the truthiness JavaScript's if, while, && , || and ! use
Truthy(v) ==
    CASE v.t = "num" -> v.n # 0
      [] v.t = "nan" -> FALSE
      [] v.t = "str" -> v.s # <<>>
      [] v.t = "bool" -> v.b
      [] v.t = "null" -> FALSE
      [] v.t = "undef" -> FALSE
      [] v.t = "func" -> TRUE

IsNumeric(v) == v.t \in {"num", "nan"}

\* left == right
LooseEquals(l, r) ==
    IF IsNumeric(l) /\ IsNumeric(r) THEN l.t = "num" /\ r.t = "num" /\ l.n = r.n
    ELSE IF l.t = r.t THEN l = r
    ELSE IF l.t \in {"null", "undef"} \/ r.t \in {"null", "undef"}
         THEN l.t \in {"null", "undef"} /\ r.t \in {"null", "undef"}
    ELSE IF l.t = "func" THEN r.t = "str" /\ r.s = ObjectString
    ELSE IF r.t = "func" THEN l.t = "str" /\ l.s = ObjectString
    ELSE LET a == ToNumberJS(l)
             b == ToNumberJS(r)
         IN  a.t = "num" /\ b.t = "num" /\ a.n = b.n

\* the comparison with <= read as <
Compare_Strict(op, l, r) ==
    LET a == ToNumberJS(l)
        b == ToNumberJS(r)
    IN  IF a.t = "nan" \/ b.t = "nan" THEN FALSE
        ELSE CASE op = ">" -> a.n > b.n
               [] op = ">=" -> a.n > b.n
               [] op = "<" -> a.n < b.n
               [] op = "<=" -> a.n < b.n

\* left < right, left <= right, ... after both operands became numbers; two
\* strings would compare by code units, which no program of the model does.
Compare(op, l, r) ==
    LET a == ToNumberJS(l)
        b == ToNumberJS(r)
    IN  IF a.t = "nan" \/ b.t = "nan" THEN FALSE
        ELSE CASE op = ">" -> a.n > b.n
               [] op = ">=" -> a.n >= b.n
               [] op = "<" -> a.n < b.n
               [] op = "<=" -> a.n <= b.n

\* left % right of JavaScript: the sign follows the dividend
Remainder(a, b) ==
    IF b = 0 THEN NaN
    ELSE LET m == IF b < 0 THEN 0 - b ELSE b
         IN  IF a < 0 THEN Num(0 - ((0 - a) % m)) ELSE Num(a % m)

\* left - right, left * right, left % right, and left / right where the
\* quotient is an integer (the model's numbers are the integers and NaN)
Arithmetic(op, l, r) ==
    LET a == ToNumberJS(l)
        b == ToNumberJS(r)
    IN  IF a.t = "nan" \/ b.t = "nan" THEN NaN
        ELSE CASE op = "-" -> Num(a.n - b.n)
               [] op = "*" -> Num(a.n * b.n)
               [] op = "%" -> Remainder(a.n, b.n)
               [] op = "/" /\ b.n # 0 /\ Remainder(a.n, b.n) = Num(0) ->
                    Num((IF (a.n < 0) = (b.n < 0) THEN 1 ELSE 0 - 1)
                        * ((IF a.n < 0 THEN 0 - a.n ELSE a.n)
                           \div (IF b.n < 0 THEN 0 - b.n ELSE b.n)))

\* left + right: concatenation as soon as one operand is a string (or an
\* object, which becomes its string), numeric addition otherwise
Plus(l, r) ==
    IF l.t \in {"str", "func"} \/ r.t \in {"str", "func"}
    THEN Str(ToStringJS(l) \o ToStringJS(r))
    ELSE LET a == ToNumberJS(l)
             b == ToNumberJS(r)
         IN  IF a.t = "nan" \/ b.t = "nan" THEN NaN ELSE Num(a.n + b.n)

BinaryOperators ==
    {"ani", "kimva", ">", ">=", "<", "<=", "==", "!=", "+", "-", "*", "/", "%"}

\* the switch of evaluateBinaryExpression, for an operator it knows
BinaryResult(op, l, r) ==
    CASE op = "ani" -> IF Truthy(l) THEN r ELSE l
      [] op = "kimva" -> IF Truthy(l) THEN l ELSE r
      [] op \in {">", ">=", "<", "<="} -> Bool(Compare(op, l, r))
      [] op = "==" -> Bool(LooseEquals(l, r))
      [] op = "!=" -> Bool(~LooseEquals(l, r))
      [] op = "+" -> Plus(l, r)
      [] op \in {"-", "*", "/", "%"} -> Arithmetic(op, l, r)

UnaryOperators == {"-", "nahi", "!="}

\* the switch of evaluateUnaryExpression, for an operator it knows
UnaryResult(op, arg) ==
    CASE op = "-" -> LET a == ToNumberJS(arg)
                     IN  IF a.t = "nan" THEN NaN ELSE Num(0 - a.n)
      [] op \in {"nahi", "!="} -> Bool(~Truthy(arg))

\* stringify without its first line: String(null)
stringify_WithoutNil(v) == IF v.t = "null" THEN <<"n", "u", "l", "l">> ELSE ToStringJS(v)

\* Interpreter.stringify
stringify(v) == IF v.t = "null" THEN <<"n", "i", "l">> ELSE ToStringJS(v)

RECURSIVE JoinEmpty(_)
\* values.map(this.stringify).join('')
JoinEmpty(values) ==
    IF values = <<>> THEN <<>> ELSE stringify(Head(values)) \o JoinEmpty(Tail(values))

\* what Array.prototype.join makes of one element: null and undefined are empty
JoinElement(v) == IF v.t \in {"null", "undef"} THEN <<>> ELSE ToStringJS(v)

RECURSIVE JoinSpace(_)
\* args.join(' ')
JoinSpace(values) ==
    IF values = <<>> THEN <<>>
    ELSE IF Len(values) = 1 THEN JoinElement(values[1])
    ELSE JoinElement(Head(values)) \o <<" ">> \o JoinSpace(Tail(values))

\* the Literal case of evaluate: a string that Number() accepts becomes a number
LiteralValue(v) ==
    IF v.t = "str" /\ NumberOfString(v.s).t # "nan" THEN NumberOfString(v.s) ELSE v

(***************************************************************************)
(* Environment (client/src/environment.ts): one flat map, no parent.  `id` *)
(* stands for the identity of the object.                                  *)
(***************************************************************************)
NewEnvironment(id) == [id |-> id, values |-> [n \in {} |-> Null]]

EnvHas(env, name) == name \in DOMAIN env.values

\* define() that keeps the value of a name that is already bound
EnvDefine_KeepsExisting(env, name, value) ==
    [env EXCEPT !.values =
        [n \in (DOMAIN env.values) \cup {name} |->
            IF n \in DOMAIN env.values THEN env.values[n] ELSE value]]

EnvDefine(env, name, value) ==
    [env EXCEPT !.values =
        [n \in (DOMAIN env.values) \cup {name} |->
            IF n = name THEN value ELSE env.values[n]]]

EnvGet(env, name) == env.values[name]

(***************************************************************************)
(* AST nodes (types.ts), as the parser builds them.                        *)
(***************************************************************************)
Absent == [type |-> "absent"]   \* a null or missing child node

Literal(v) == [type |-> "Literal", value |-> v]

\* a NUMBER token: the parser stores the token's text
NumberLiteral(n) == Literal(Str(NatToString(n)))

Identifier(name) == [type |-> "Identifier", name |-> name]

BinaryExpression(left, operator, right) ==
    [type |-> "BinaryExpression", left |-> left, operator |-> operator, right |-> right]

UnaryExpression(operator, argument) ==
    [type |-> "UnaryExpression", operator |-> operator, argument |-> argument]

CallExpression(callee, arguments) ==
    [type |-> "CallExpression", callee |-> callee, arguments |-> arguments]

MemberExpression(object, property) ==
    [type |-> "MemberExpression", object |-> object, property |-> property]

VarDeclaration(name, initializer) ==
    [type |-> "VarDeclaration", name |-> name, initializer |-> initializer]

Assignment(identifier, value) ==
    [type |-> "Assignment", identifier |-> identifier, value |-> value]

PrintStatement(expressions) == [type |-> "PrintStatement", expressions |-> expressions]

BlockStatement(body) == [type |-> "BlockStatement", body |-> body]

IfStatement(condition, consequent, alternate) ==
    [type |-> "IfStatement", condition |-> condition, consequent |-> consequent,
     alternate |-> alternate]

WhileStatement(condition, body) ==
    [type |-> "WhileStatement", condition |-> condition, body |-> body]

FunctionDeclaration(name, parameters, body) ==
    [type |-> "FunctionDeclaration", name |-> name, parameters |-> parameters,
     body |-> body]

ReturnStatement(value) == [type |-> "ReturnStatement", value |-> value]

BreakStatement == [type |-> "BreakStatement"]

ContinueStatement == [type |-> "ContinueStatement"]

PlaceholderStatement == [type |-> "PlaceholderStatement"]

(***************************************************************************)
(* Thrown values.                                                          *)
(***************************************************************************)
BreakException == [cls |-> "BreakException"]

ContinueException == [cls |-> "ContinueException"]

ReturnException(value) == [cls |-> "ReturnException", value |-> value]

\* new RuntimeError(message); the message is kept as its parts
RuntimeError(message) == [cls |-> "RuntimeError", message |-> message]

HostError == [cls |-> "Error"]       \* an Error that is no RuntimeError

HostRejection == [cls |-> "Other"]   \* a thrown value that is no Error at all

(***************************************************************************)
(* The machine.                                                            *)
(***************************************************************************)
Top == stack[Len(stack)]

Pop == SubSeq(stack, 1, Len(stack) - 1)

Push(frame) == Append(stack, frame)

ReplaceTop(frame) == [stack EXCEPT ![Len(stack)] = frame]

Exec(node) == [mode |-> "exec", node |-> node]

Eval(node) == [mode |-> "eval", node |-> node]

Value(v) == [mode |-> "value", value |-> v]

Done == [mode |-> "done"]

\* `calls` counts the function-call activations the thrown value has left
Throw(exc) == [mode |-> "throw", exc |-> exc, calls |-> 0]

OnFrame(kind) == stack # <<>> /\ Top.k = kind

IsCallFrame(frame) == frame.k \in {"callArgs", "callBody"}

LiveEnvIds ==
    {environment.id} \cup {stack[i].previousEnv.id : i \in {j \in 1..Len(stack) : IsCallFrame(stack[j])}}

\* the identity of a new Environment(): one no live object has
FreshEnvId == CHOOSE n \in 0..(Len(stack) + 1) :
    /\ n \notin LiveEnvIds
    /\ \A m \in 0..(Len(stack) + 1) : m < n => m \in LiveEnvIds

(***************************************************************************)
(* interpret(program)                                                      *)
(***************************************************************************)
\* the host calls interpret(program): the try block and its for loop begin
Interpret ==
    /\ parsed.status \in {"ok", "given"}
    /\ ctrl.mode = "idle"
    /\ stack' = <<[k |-> "interpret", i |-> 0]>>
    /\ ctrl' = Done
    /\ UNCHANGED <<source, tokens, parsed, program, options, environment, output, errlog, outcome>>

\* one turn of `for (const statement of program.body)`, or its end
InterpretLoop ==
    /\ ctrl.mode = "done"
    /\ OnFrame("interpret")
    /\ IF Top.i < Len(program)
       THEN /\ stack' = ReplaceTop([Top EXCEPT !.i = @ + 1])
            /\ ctrl' = Exec(program[Top.i + 1])
            /\ outcome' = outcome
       ELSE /\ stack' = <<>>
            /\ ctrl' = [mode |-> "end"]
            /\ outcome' = [status |-> "returned"]
    /\ UNCHANGED <<source, tokens, parsed, program, options, environment, output, errlog>>

\* the catch as if it were inside the for loop: the error is logged and the
\* loop goes on with the next statement
InterpretCatchRuntimeError_Resumes ==
    /\ ctrl.mode = "throw"
    /\ OnFrame("interpret")
    /\ ctrl.exc.cls = "RuntimeError"
    /\ errlog' = Append(errlog, [text |-> "message", message |-> ctrl.exc.message])
    /\ ctrl' = Done
    /\ UNCHANGED <<source, tokens, parsed, program, options, environment, stack, output, outcome>>

\* catch: error instanceof RuntimeError
InterpretCatchRuntimeError ==
    /\ ctrl.mode = "throw"
    /\ OnFrame("interpret")
    /\ ctrl.exc.cls = "RuntimeError"
    /\ errlog' = Append(errlog, [text |-> "message", message |-> ctrl.exc.message])
    /\ stack' = <<>>
    /\ ctrl' = [mode |-> "end"]
    /\ outcome' = [status |-> "returned"]
    /\ UNCHANGED <<source, tokens, parsed, program, options, environment, output>>

\* the catch without its middle branch: an Error is thrown again
InterpretCatchError_Rethrows ==
    /\ ctrl.mode = "throw"
    /\ OnFrame("interpret")
    /\ ctrl.exc.cls = "Error"
    /\ errlog' = Append(errlog, [text |-> "An unknown error occurred."])
    /\ stack' = <<>>
    /\ ctrl' = [mode |-> "end"]
    /\ outcome' = [status |-> "thrown", exc |-> ctrl.exc]
    /\ UNCHANGED <<source, tokens, parsed, program, options, environment, output>>

\* catch: error instanceof Error
InterpretCatchError ==
    /\ ctrl.mode = "throw"
    /\ OnFrame("interpret")
    /\ ctrl.exc.cls = "Error"
    /\ errlog' = Append(errlog, [text |-> "Runtime Error: message"])
    /\ stack' = <<>>
    /\ ctrl' = [mode |-> "end"]
    /\ outcome' = [status |-> "returned"]
    /\ UNCHANGED <<source, tokens, parsed, program, options, environment, output>>

\* catch: anything else is logged and thrown again
InterpretCatchUnknown ==
    /\ ctrl.mode = "throw"
    /\ OnFrame("interpret")
    /\ ctrl.exc.cls \notin {"RuntimeError", "Error"}
    /\ errlog' = Append(errlog, [text |-> "An unknown error occurred."])
    /\ stack' = <<>>
    /\ ctrl' = [mode |-> "end"]
    /\ outcome' = [status |-> "thrown", exc |-> ctrl.exc]
    /\ UNCHANGED <<source, tokens, parsed, program, options, environment, output>>

(***************************************************************************)
(* execute(statement)                                                      *)
(***************************************************************************)
Executing(type) == ctrl.mode = "exec" /\ ctrl.node.type = type

StatementTypes ==
    {"VarDeclaration", "Assignment", "PrintStatement", "IfStatement", "WhileStatement",
     "BlockStatement", "BreakStatement", "ContinueStatement", "FunctionDeclaration",
     "ReturnStatement"}

\* executeVarDeclaration, up to the evaluation of the initializer
ExecuteVarDeclaration ==
    /\ Executing("VarDeclaration")
    /\ IF ctrl.node.initializer # Absent
       THEN /\ stack' = Push([k |-> "varDecl", name |-> ctrl.node.name])
            /\ ctrl' = Eval(ctrl.node.initializer)
            /\ environment' = environment
       ELSE /\ environment' = EnvDefine(environment, ctrl.node.name, Null)
            /\ ctrl' = Done
            /\ stack' = stack
    /\ UNCHANGED <<source, tokens, parsed, program, options, output, errlog, outcome>>

\* executeVarDeclaration, once the initializer has its value
VarDeclarationDefine ==
    /\ ctrl.mode = "value"
    /\ OnFrame("varDecl")
    /\ environment' = EnvDefine(environment, Top.name, ctrl.value)
    /\ stack' = Pop
    /\ ctrl' = Done
    /\ UNCHANGED <<source, tokens, parsed, program, options, output, errlog, outcome>>

\* executeAssignment, up to the evaluation of the value
ExecuteAssignment ==
    /\ Executing("Assignment")
    /\ stack' = Push([k |-> "assign", identifier |-> ctrl.node.identifier])
    /\ ctrl' = Eval(ctrl.node.value)
    /\ UNCHANGED <<source, tokens, parsed, program, options, environment, output, errlog, outcome>>

\* executeAssignment: this.environment.set(identifier, value)
AssignmentSet ==
    /\ ctrl.mode = "value"
    /\ OnFrame("assign")
    /\ stack' = Pop
    /\ IF EnvHas(environment, Top.identifier)
       THEN /\ environment' = EnvDefine(environment, Top.identifier, ctrl.value)
            /\ ctrl' = Done
       ELSE /\ environment' = environment
            /\ ctrl' = Throw(RuntimeError([kind |-> "CannotAssign", name |-> Top.identifier]))
    /\ UNCHANGED <<source, tokens, parsed, program, options, output, errlog, outcome>>

\* executePrintStatement, up to the evaluation of the first expression
ExecutePrintStatement ==
    /\ Executing("PrintStatement")
    /\ IF Len(ctrl.node.expressions) > 0
       THEN /\ stack' = Push([k |-> "print", expressions |-> ctrl.node.expressions,
                                i |-> 1, values |-> <<>>])
            /\ ctrl' = Eval(ctrl.node.expressions[1])
       ELSE /\ stack' = stack
            /\ ctrl' = Throw(RuntimeError([kind |-> "PrintNoExpression"]))
    /\ UNCHANGED <<source, tokens, parsed, program, options, environment, output, errlog, outcome>>

\* executePrintStatement: the next expression, or the one call of the sink
PrintNext ==
    /\ ctrl.mode = "value"
    /\ OnFrame("print")
    /\ LET values == Append(Top.values, ctrl.value) IN
       IF Top.i < Len(Top.expressions)
       THEN /\ stack' = ReplaceTop([Top EXCEPT !.i = @ + 1, !.values = values])
            /\ ctrl' = Eval(Top.expressions[Top.i + 1])
            /\ output' = output
       ELSE /\ stack' = Pop
            /\ ctrl' = Done
            /\ output' = Append(output, JoinEmpty(values))
    /\ UNCHANGED <<source, tokens, parsed, program, options, environment, errlog, outcome>>

\* executeIfStatement, up to the evaluation of the condition
ExecuteIfStatement ==
    /\ Executing("IfStatement")
    /\ stack' = Push([k |-> "if", statement |-> ctrl.node])
    /\ ctrl' = Eval(ctrl.node.condition)
    /\ UNCHANGED <<source, tokens, parsed, program, options, environment, output, errlog, outcome>>

\* executeIfStatement: the branch
IfBranch ==
    /\ ctrl.mode = "value"
    /\ OnFrame("if")
    /\ stack' = Pop
    /\ ctrl' = IF Truthy(ctrl.value) THEN Exec(Top.statement.consequent)
               ELSE IF Top.statement.alternate # Absent THEN Exec(Top.statement.alternate)
               ELSE Done
    /\ UNCHANGED <<source, tokens, parsed, program, options, environment, output, errlog, outcome>>

\* executeBlockStatement: entering the for loop
ExecuteBlockStatement ==
    /\ Executing("BlockStatement")
    /\ stack' = Push([k |-> "block", body |-> ctrl.node.body, i |-> 0])
    /\ ctrl' = Done
    /\ UNCHANGED <<source, tokens, parsed, program, options, environment, output, errlog, outcome>>

\* executeBlockStatement: one turn of the for loop, or its end
BlockNext ==
    /\ ctrl.mode = "done"
    /\ OnFrame("block")
    /\ IF Top.i < Len(Top.body)
       THEN /\ stack' = ReplaceTop([Top EXCEPT !.i = @ + 1])
            /\ ctrl' = Exec(Top.body[Top.i + 1])
       ELSE /\ stack' = Pop
            /\ ctrl' = Done
    /\ UNCHANGED <<source, tokens, parsed, program, options, environment, output, errlog, outcome>>

\* executeWhileStatement: the first evaluation of the condition
ExecuteWhileStatement ==
    /\ Executing("WhileStatement")
    /\ stack' = Push([k |-> "whileCond", statement |-> ctrl.node])
    /\ ctrl' = Eval(ctrl.node.condition)
    /\ UNCHANGED <<source, tokens, parsed, program, options, environment, output, errlog, outcome>>

\* while (await this.evaluate(statement.condition)): enter the try, or leave
WhileTest ==
    /\ ctrl.mode = "value"
    /\ OnFrame("whileCond")
    /\ IF Truthy(ctrl.value)
       THEN /\ stack' = ReplaceTop([k |-> "whileBody", statement |-> Top.statement])
            /\ ctrl' = Exec(Top.statement.body)
       ELSE /\ stack' = Pop
            /\ ctrl' = Done
    /\ UNCHANGED <<source, tokens, parsed, program, options, environment, output, errlog, outcome>>

\* the body ended normally: back to the condition
WhileBodyDone ==
    /\ ctrl.mode = "done"
    /\ OnFrame("whileBody")
    /\ stack' = ReplaceTop([k |-> "whileCond", statement |-> Top.statement])
    /\ ctrl' = Eval(Top.statement.condition)
    /\ UNCHANGED <<source, tokens, parsed, program, options, environment, output, errlog, outcome>>

\* catch (e): e instanceof BreakException -> break
WhileCatchBreak ==
    /\ ctrl.mode = "throw"
    /\ OnFrame("whileBody")
    /\ ctrl.exc.cls = "BreakException"
    /\ stack' = Pop
    /\ ctrl' = Done
    /\ UNCHANGED <<source, tokens, parsed, program, options, environment, output, errlog, outcome>>

\* continue as a jump to the start of the body, the condition not tested
WhileCatchContinue_SkipsCondition ==
    /\ ctrl.mode = "throw"
    /\ OnFrame("whileBody")
    /\ ctrl.exc.cls = "ContinueException"
    /\ ctrl' = Exec(Top.statement.body)
    /\ UNCHANGED <<source, tokens, parsed, program, options, environment, stack, output, errlog, outcome>>

\* catch (e): e instanceof ContinueException -> continue
WhileCatchContinue ==
    /\ ctrl.mode = "throw"
    /\ OnFrame("whileBody")
    /\ ctrl.exc.cls = "ContinueException"
    /\ stack' = ReplaceTop([k |-> "whileCond", statement |-> Top.statement])
    /\ ctrl' = Eval(Top.statement.condition)
    /\ UNCHANGED <<source, tokens, parsed, program, options, environment, output, errlog, outcome>>

\* a loop that also ends on a ReturnException, as it does on a BreakException
WhileRethrow_EndsLoopOnReturn ==
    /\ ctrl.mode = "throw"
    /\ OnFrame("whileBody")
    /\ ctrl.exc.cls \notin {"BreakException", "ContinueException"}
    /\ stack' = Pop
    /\ ctrl' = IF ctrl.exc.cls = "ReturnException" THEN Done ELSE ctrl
    /\ UNCHANGED <<source, tokens, parsed, program, options, environment, output, errlog, outcome>>

\* catch (e): anything else -> throw e
WhileRethrow ==
    /\ ctrl.mode = "throw"
    /\ OnFrame("whileBody")
    /\ ctrl.exc.cls \notin {"BreakException", "ContinueException"}
    /\ stack' = Pop
    /\ ctrl' = ctrl
    /\ UNCHANGED <<source, tokens, parsed, program, options, environment, output, errlog, outcome>>

\* case 'BreakStatement'
ExecuteBreakStatement ==
    /\ Executing("BreakStatement")
    /\ ctrl' = Throw(BreakException)
    /\ UNCHANGED <<source, tokens, parsed, program, options, environment, stack, output, errlog, outcome>>

\* case 'ContinueStatement'
ExecuteContinueStatement ==
    /\ Executing("ContinueStatement")
    /\ ctrl' = Throw(ContinueException)
    /\ UNCHANGED <<source, tokens, parsed, program, options, environment, stack, output, errlog, outcome>>

\* case 'FunctionDeclaration': the declaration node itself is the value
ExecuteFunctionDeclaration ==
    /\ Executing("FunctionDeclaration")
    /\ environment' = EnvDefine(environment, ctrl.node.name, FuncValue(ctrl.node))
    /\ ctrl' = Done
    /\ UNCHANGED <<source, tokens, parsed, program, options, stack, output, errlog, outcome>>

\* case 'ReturnStatement', up to the evaluation of the value
ExecuteReturnStatement ==
    /\ Executing("ReturnStatement")
    /\ IF ctrl.node.value # Absent
       THEN /\ stack' = Push([k |-> "return"])
            /\ ctrl' = Eval(ctrl.node.value)
       ELSE /\ stack' = stack
            /\ ctrl' = Throw(ReturnException(Undefined))
    /\ UNCHANGED <<source, tokens, parsed, program, options, environment, output, errlog, outcome>>

\* case 'ReturnStatement': throw new ReturnException(value)
ReturnThrow ==
    /\ ctrl.mode = "value"
    /\ OnFrame("return")
    /\ stack' = Pop
    /\ ctrl' = Throw(ReturnException(ctrl.value))
    /\ UNCHANGED <<source, tokens, parsed, program, options, environment, output, errlog, outcome>>

\* default: Unknown statement type
ExecuteUnknownStatement ==
    /\ ctrl.mode = "exec"
    /\ ctrl.node.type \notin StatementTypes
    /\ ctrl' = Throw(RuntimeError([kind |-> "UnknownStatement", type |-> ctrl.node.type]))
    /\ UNCHANGED <<source, tokens, parsed, program, options, environment, stack, output, errlog, outcome>>

\* a thrown value leaves an activation that has no try block around the await
Propagate ==
    /\ ctrl.mode = "throw"
    /\ stack # <<>>
    /\ Top.k \notin {"interpret", "whileBody", "callArgs", "callBody"}
    /\ stack' = Pop
    /\ ctrl' = ctrl
    /\ UNCHANGED <<source, tokens, parsed, program, options, environment, output, errlog, outcome>>

(***************************************************************************)
(* evaluate(expression)                                                    *)
(***************************************************************************)
Evaluating(type) == ctrl.mode = "eval" /\ ctrl.node.type = type

ExpressionTypes ==
    {"Literal", "Identifier", "BinaryExpression", "UnaryExpression", "CallExpression"}

\* case 'Literal'
EvaluateLiteral ==
    /\ Evaluating("Literal")
    /\ ctrl' = Value(LiteralValue(ctrl.node.value))
    /\ UNCHANGED <<source, tokens, parsed, program, options, environment, stack, output, errlog, outcome>>

\* case 'Identifier': this.environment.get(name)
EvaluateIdentifier ==
    /\ Evaluating("Identifier")
    /\ ctrl' = IF EnvHas(environment, ctrl.node.name)
               THEN Value(EnvGet(environment, ctrl.node.name))
               ELSE Throw(RuntimeError([kind |-> "UndefinedVariable", name |-> ctrl.node.name]))
    /\ UNCHANGED <<source, tokens, parsed, program, options, environment, stack, output, errlog, outcome>>

\* evaluateBinaryExpression, up to the evaluation of the left operand
EvaluateBinaryExpression ==
    /\ Evaluating("BinaryExpression")
    /\ stack' = Push([k |-> "binaryLeft", expression |-> ctrl.node])
    /\ ctrl' = Eval(ctrl.node.left)
    /\ UNCHANGED <<source, tokens, parsed, program, options, environment, output, errlog, outcome>>

\* evaluateBinaryExpression: the right operand is evaluated whatever the left is
BinaryRight ==
    /\ ctrl.mode = "value"
    /\ OnFrame("binaryLeft")
    /\ stack' = ReplaceTop([k |-> "binaryRight", expression |-> Top.expression,
                            left |-> ctrl.value])
    /\ ctrl' = Eval(Top.expression.right)
    /\ UNCHANGED <<source, tokens, parsed, program, options, environment, output, errlog, outcome>>

\* evaluateBinaryExpression: the switch on the operator
BinaryApply ==
    /\ ctrl.mode = "value"
    /\ OnFrame("binaryRight")
    /\ stack' = Pop
    /\ ctrl' = IF Top.expression.operator \in BinaryOperators
               THEN Value(BinaryResult(Top.expression.operator, Top.left, ctrl.value))
               ELSE Throw(RuntimeError([kind |-> "UnknownBinaryOperator",
                                        operator |-> Top.expression.operator]))
    /\ UNCHANGED <<source, tokens, parsed, program, options, environment, output, errlog, outcome>>

\* evaluateUnaryExpression, up to the evaluation of the argument
EvaluateUnaryExpression ==
    /\ Evaluating("UnaryExpression")
    /\ stack' = Push([k |-> "unary", operator |-> ctrl.node.operator])
    /\ ctrl' = Eval(ctrl.node.argument)
    /\ UNCHANGED <<source, tokens, parsed, program, options, environment, output, errlog, outcome>>

\* evaluateUnaryExpression: the switch on the operator
UnaryApply ==
    /\ ctrl.mode = "value"
    /\ OnFrame("unary")
    /\ stack' = Pop
    /\ ctrl' = IF Top.operator \in UnaryOperators
               THEN Value(UnaryResult(Top.operator, ctrl.value))
               ELSE Throw(RuntimeError([kind |-> "UnknownUnaryOperator",
                                        operator |-> Top.operator]))
    /\ UNCHANGED <<source, tokens, parsed, program, options, environment, output, errlog, outcome>>

\* default: Unknown expression type
EvaluateUnknownExpression ==
    /\ ctrl.mode = "eval"
    /\ ctrl.node.type \notin ExpressionTypes
    /\ ctrl' = Throw(RuntimeError([kind |-> "UnknownExpression", type |-> ctrl.node.type]))
    /\ UNCHANGED <<source, tokens, parsed, program, options, environment, stack, output, errlog, outcome>>

(***************************************************************************)
(* evaluateCallExpression                                                  *)
(***************************************************************************)
Calling == Evaluating("CallExpression") /\ ctrl.node.callee.type = "Identifier"

CallingUser == Calling /\ ctrl.node.callee.name \notin {"ghye", "dakhava"}

\* what an input provider does when called: it supplies a text, throws an
\* Error, or throws (rejects with) a value that is no Error
InputTexts == {<<"7">>, <<"h", "i">>}

InputResults ==
    {Value(Str(t)) : t \in InputTexts} \cup {Throw(HostError), Throw(HostRejection)}

\* ghye with a provider that answers at once
GhyeSync ==
    /\ Calling
    /\ ctrl.node.callee.name = "ghye"
    /\ options.input = "sync"
    /\ \E r \in InputResults : ctrl' = r
    /\ UNCHANGED <<source, tokens, parsed, program, options, environment, stack, output, errlog, outcome>>

\* ghye with a provider that returns a Promise: return await result
GhyeAwait ==
    /\ Calling
    /\ ctrl.node.callee.name = "ghye"
    /\ options.input = "async"
    /\ ctrl' = [mode |-> "await"]
    /\ UNCHANGED <<source, tokens, parsed, program, options, environment, stack, output, errlog, outcome>>

\* the Promise of the provider settles, and a numeric text is made a number
InputSettle_Coerces ==
    /\ ctrl.mode = "await"
    /\ \E r \in InputResults :
          ctrl' = IF r.mode = "value" THEN Value(LiteralValue(r.value)) ELSE r
    /\ UNCHANGED <<source, tokens, parsed, program, options, environment, stack, output, errlog, outcome>>

\* the Promise of the provider settles
InputSettle ==
    /\ ctrl.mode = "await"
    /\ \E r \in InputResults : ctrl' = r
    /\ UNCHANGED <<source, tokens, parsed, program, options, environment, stack, output, errlog, outcome>>

\* ghye without provider, with window.prompt: a text, or null when dismissed
GhyePrompt ==
    /\ Calling
    /\ ctrl.node.callee.name = "ghye"
    /\ options.input = "none"
    /\ options.prompt
    /\ \E v \in {Str(t) : t \in InputTexts} \cup {Null} : ctrl' = Value(v)
    /\ UNCHANGED <<source, tokens, parsed, program, options, environment, stack, output, errlog, outcome>>

\* ghye with neither
GhyeUnavailable ==
    /\ Calling
    /\ ctrl.node.callee.name = "ghye"
    /\ options.input = "none"
    /\ ~options.prompt
    /\ ctrl' = Throw(RuntimeError([kind |-> "NoInput"]))
    /\ UNCHANGED <<source, tokens, parsed, program, options, environment, stack, output, errlog, outcome>>

\* dakhava as a call, up to the evaluation of the first argument
DakhavaCall ==
    /\ Calling
    /\ ctrl.node.callee.name = "dakhava"
    /\ IF Len(ctrl.node.arguments) > 0
       THEN /\ stack' = Push([k |-> "dakhavaArgs", arguments |-> ctrl.node.arguments,
                                i |-> 1, args |-> <<>>])
            /\ ctrl' = Eval(ctrl.node.arguments[1])
            /\ output' = output
       ELSE /\ stack' = stack
            /\ ctrl' = Value(Null)
            /\ output' = Append(output, JoinSpace(<<>>))
    /\ UNCHANGED <<source, tokens, parsed, program, options, environment, errlog, outcome>>

\* dakhava as a call: the next argument, or the output and null
DakhavaNext ==
    /\ ctrl.mode = "value"
    /\ OnFrame("dakhavaArgs")
    /\ LET args == Append(Top.args, ctrl.value) IN
       IF Top.i < Len(Top.arguments)
       THEN /\ stack' = ReplaceTop([Top EXCEPT !.i = @ + 1, !.args = args])
            /\ ctrl' = Eval(Top.arguments[Top.i + 1])
            /\ output' = output
       ELSE /\ stack' = Pop
            /\ ctrl' = Value(Null)
            /\ output' = Append(output, JoinSpace(args))
    /\ UNCHANGED <<source, tokens, parsed, program, options, environment, errlog, outcome>>

\* const func = this.environment.get(name) throws
CallUndefinedName ==
    /\ CallingUser
    /\ ~EnvHas(environment, ctrl.node.callee.name)
    /\ ctrl' = Throw(RuntimeError([kind |-> "UndefinedVariable",
                                   name |-> ctrl.node.callee.name]))
    /\ UNCHANGED <<source, tokens, parsed, program, options, environment, stack, output, errlog, outcome>>

\* the name is bound, but not to a FunctionDeclaration: Unknown function
CallNotAFunction ==
    /\ CallingUser
    /\ EnvHas(environment, ctrl.node.callee.name)
    /\ EnvGet(environment, ctrl.node.callee.name).t # "func"
    /\ ctrl' = Throw(RuntimeError([kind |-> "UnknownFunction",
                                   name |-> ctrl.node.callee.name]))
    /\ UNCHANGED <<source, tokens, parsed, program, options, environment, stack, output, errlog, outcome>>

\* the callee is no Identifier: Unknown function: non-identifier
CallNonIdentifier ==
    /\ Evaluating("CallExpression")
    /\ ctrl.node.callee.type # "Identifier"
    /\ ctrl' = Throw(RuntimeError([kind |-> "UnknownFunction", name |-> "non-identifier"]))
    /\ UNCHANGED <<source, tokens, parsed, program, options, environment, stack, output, errlog, outcome>>

CallingFunction ==
    /\ CallingUser
    /\ EnvHas(environment, ctrl.node.callee.name)
    /\ EnvGet(environment, ctrl.node.callee.name).t = "func"

Callee == EnvGet(environment, ctrl.node.callee.name).decl

\* the arity check placed after the switch to the new Environment
CallArityMismatch_AfterInstall ==
    /\ CallingFunction
    /\ Len(ctrl.node.arguments) # Len(Callee.parameters)
    /\ environment' = NewEnvironment(FreshEnvId)
    /\ ctrl' = Throw(RuntimeError([kind |-> "Arity", name |-> ctrl.node.callee.name,
                                   expected |-> Len(Callee.parameters),
                                   actual |-> Len(ctrl.node.arguments)]))
    /\ UNCHANGED <<source, tokens, parsed, program, options, stack, output, errlog, outcome>>

\* expression.arguments.length !== func.parameters.length
CallArityMismatch ==
    /\ CallingFunction
    /\ Len(ctrl.node.arguments) # Len(Callee.parameters)
    /\ ctrl' = Throw(RuntimeError([kind |-> "Arity", name |-> ctrl.node.callee.name,
                                   expected |-> Len(Callee.parameters),
                                   actual |-> Len(ctrl.node.arguments)]))
    /\ UNCHANGED <<source, tokens, parsed, program, options, environment, stack, output, errlog, outcome>>

\* previousEnv is remembered, a new Environment becomes current, and the
\* binding loop starts (or, without parameters, the body)
CallEnter ==
    /\ CallingFunction
    /\ Len(ctrl.node.arguments) = Len(Callee.parameters)
    /\ environment' = NewEnvironment(FreshEnvId)
    /\ IF Len(Callee.parameters) > 0
       THEN /\ stack' = Push([k |-> "callArgs", func |-> Callee,
                                arguments |-> ctrl.node.arguments, i |-> 1,
                                localEnv |-> FreshEnvId, previousEnv |-> environment])
            /\ ctrl' = Eval(ctrl.node.arguments[1])
       ELSE /\ stack' = Push([k |-> "callBody", previousEnv |-> environment])
            /\ ctrl' = Exec(Callee.body)
    /\ UNCHANGED <<source, tokens, parsed, program, options, output, errlog, outcome>>

\* localEnv.define(func.parameters[i], value of arguments[i]); then the next
\* argument, or the try block around the body
CallBindParameter ==
    /\ ctrl.mode = "value"
    /\ OnFrame("callArgs")
    /\ environment' = EnvDefine(environment, Top.func.parameters[Top.i], ctrl.value)
    /\ IF Top.i < Len(Top.func.parameters)
       THEN /\ stack' = ReplaceTop([Top EXCEPT !.i = @ + 1])
            /\ ctrl' = Eval(Top.arguments[Top.i + 1])
       ELSE /\ stack' = ReplaceTop([k |-> "callBody", previousEnv |-> Top.previousEnv])
            /\ ctrl' = Exec(Top.func.body)
    /\ UNCHANGED <<source, tokens, parsed, program, options, output, errlog, outcome>>

\* the body ended without return: this.environment = previousEnv; undefined
CallBodyDone ==
    /\ ctrl.mode = "done"
    /\ OnFrame("callBody")
    /\ environment' = Top.previousEnv
    /\ stack' = Pop
    /\ ctrl' = Value(Undefined)
    /\ UNCHANGED <<source, tokens, parsed, program, options, output, errlog, outcome>>

\* catch (e): e instanceof ReturnException; this.environment = previousEnv
CallCatchReturn ==
    /\ ctrl.mode = "throw"
    /\ OnFrame("callBody")
    /\ ctrl.exc.cls = "ReturnException"
    /\ environment' = Top.previousEnv
    /\ stack' = Pop
    /\ ctrl' = Value(ctrl.exc.value)
    /\ UNCHANGED <<source, tokens, parsed, program, options, output, errlog, outcome>>

\* catch (e): anything else -> throw e; the line after the try is not reached
CallRethrow ==
    /\ ctrl.mode = "throw"
    /\ OnFrame("callBody")
    /\ ctrl.exc.cls # "ReturnException"
    /\ stack' = Pop
    /\ ctrl' = [ctrl EXCEPT !.calls = @ + 1]
    /\ UNCHANGED <<source, tokens, parsed, program, options, environment, output, errlog, outcome>>

\* an argument's evaluation throws: the binding loop is inside no try block
CallArgumentThrows ==
    /\ ctrl.mode = "throw"
    /\ OnFrame("callArgs")
    /\ stack' = Pop
    /\ ctrl' = [ctrl EXCEPT !.calls = @ + 1]
    /\ UNCHANGED <<source, tokens, parsed, program, options, environment, output, errlog, outcome>>

(***************************************************************************)
(* The lexer (lexer.ts).  The input is a sequence of one-character         *)
(* strings; `at` is the lexer's cursor: position (0-based), line, column.  *)
(* A token's value is the sequence of its characters.                      *)
(***************************************************************************)
LowerLetters == << "a", "b", "c", "d", "e", "f", "g", "h", "i", "j", "k", "l", "m",
                   "n", "o", "p", "q", "r", "s", "t", "u", "v", "w", "x", "y", "z" >>

UpperLetters == << "A", "B", "C", "D", "E", "F", "G", "H", "I", "J", "K", "L", "M",
                   "N", "O", "P", "Q", "R", "S", "T", "U", "V", "W", "X", "Y", "Z" >>

\* String.prototype.toLowerCase, character by character
toLowerCase(value) ==
    [i \in 1..Len(value) |->
        IF \E n \in 1..26 : UpperLetters[n] = value[i]
        THEN LowerLetters[CHOOSE n \in 1..26 : UpperLetters[n] = value[i]]
        ELSE value[i]]

\* the characters of a JavaScript string as one name of the model
RECURSIVE Text(_)
Text(chars) == IF chars = <<>> THEN "" ELSE Head(chars) \o Text(Tail(chars))

\* private keywords: Map<string, TokenType>
keywords ==
    [ chala |-> "CHALA_SURU_KARU", suru |-> "CHALA_SURU_KARU", karu |-> "CHALA_SURU_KARU",
      bas |-> "BAS_RE_ATA", re |-> "BAS_RE_ATA", ata |-> "BAS_RE_ATA",
      dakhava |-> "DAKHAVA", ghye |-> "GHYE",
      heahe |-> "HE_AHE",
      kaamkar |-> "KAAM_KAR", paratde |-> "PARAT_DE",
      jar |-> "JAR", nahitar |-> "NAHITAR", punhakar |-> "PUNHA_KAR",
      javastor |-> "PUNHA_KAR", pratyeksathi |-> "PRATYEK_SATHI",
      thamb |-> "THAMB", pudheja |-> "PUDHE_JA",
      yadi |-> "YADI",
      khara |-> "KHARA", khota |-> "KHOTA", rikam |-> "RIKAM",
      jod |-> "JOD", moj |-> "MOJ", mothaaheka |-> "MOTHA_AHE_KA",
      lahanaheka |-> "LAHAN_AHE_KA", sarkhaaheka |-> "SARKHA_AHE_KA",
      ani |-> "ANI", kimva |-> "KIMVA", nahi |-> "NAHI" ]

\* the '\0' that peek() and peekNext() give past the end of the input
EndOfInput == "NUL"

LexerStart == [position |-> 0, line |-> 1, column |-> 1]

isAtEnd(input, at) == at.position >= Len(input)

peek(input, at) == IF isAtEnd(input, at) THEN EndOfInput ELSE input[at.position + 1]

peekNext(input, at) ==
    IF at.position + 1 >= Len(input) THEN EndOfInput ELSE input[at.position + 2]

advance(input, at) ==
    IF isAtEnd(input, at) THEN at
    ELSE IF input[at.position + 1] = "\n"
         THEN [position |-> at.position + 1, line |-> at.line + 1, column |-> 1]
         ELSE [position |-> at.position + 1, line |-> at.line, column |-> at.column + 1]

isDigit(char) == char \in {"0", "1", "2", "3", "4", "5", "6", "7", "8", "9"}

isAlpha(char) ==
    \/ \E n \in 1..26 : char = LowerLetters[n] \/ char = UpperLetters[n]
    \/ char = "_"

isAlphaNumeric(char) == isAlpha(char) \/ isDigit(char)

createToken(type, value, at) ==
    [type |-> type, value |-> value, line |-> at.line, column |-> at.column]

RECURSIVE skipWhitespace(_, _)
skipWhitespace(input, at) ==
    IF ~isAtEnd(input, at) /\ peek(input, at) \in {" ", "\n", "\t", "\r"}
    THEN skipWhitespace(input, advance(input, at))
    ELSE at

RECURSIVE skipLineComment(_, _)
skipLineComment(input, at) ==
    IF ~isAtEnd(input, at) /\ peek(input, at) # "\n"
    THEN skipLineComment(input, advance(input, at))
    ELSE at

\* the loop of skipBlockComment, after the opening two characters
RECURSIVE skipBlockCommentBody(_, _)
skipBlockCommentBody(input, at) ==
    IF isAtEnd(input, at) THEN at
    ELSE IF peek(input, at) = "*" /\ peekNext(input, at) = "/"
         THEN advance(input, advance(input, at))
         ELSE skipBlockCommentBody(input, advance(input, at))

skipBlockComment(input, at) == skipBlockCommentBody(input, advance(input, advance(input, at)))

\* identifier(): the longest run of alphanumeric characters
RECURSIVE identifierFrom(_, _, _)
identifierFrom(input, at, value) ==
    IF ~isAtEnd(input, at) /\ isAlphaNumeric(peek(input, at))
    THEN identifierFrom(input, advance(input, at), Append(value, peek(input, at)))
    ELSE [value |-> value, at |-> at]

identifier(input, at) == identifierFrom(input, at, <<>>)

\* matchWord(word): the cursor moves past the word, or is restored
RECURSIVE matchWordFrom(_, _, _, _, _)
matchWordFrom(input, saved, at, word, i) ==
    IF i > Len(word)
    THEN IF ~isAtEnd(input, at) /\ isAlphaNumeric(peek(input, at))
         THEN [matched |-> FALSE, at |-> saved]
         ELSE [matched |-> TRUE, at |-> at]
    ELSE IF isAtEnd(input, at) \/ peek(input, at) # word[i]
         THEN [matched |-> FALSE, at |-> saved]
         ELSE matchWordFrom(input, saved, advance(input, at), word, i + 1)

matchWord(input, at, word) == matchWordFrom(input, at, at, word, 1)

\* the body of `if (value is the first word && peek() is a blank)`: where
\* the cursor stands afterwards and whether both following words matched
compoundKeyword(input, at, second, third) ==
    LET afterBlank == skipWhitespace(input, at)
        m1 == matchWord(input, afterBlank, second)
        m2 == matchWord(input, skipWhitespace(input, m1.at), third)
    IN IF m1.matched THEN m2 ELSE m1

handleIdentifierOrKeyword(input, at) ==
    LET id == identifier(input, at)
        lower == toLowerCase(id.value)
        tryChala == lower = <<"c", "h", "a", "l", "a">> /\ peek(input, id.at) = " "
        chala == compoundKeyword(input, id.at, <<"s", "u", "r", "u">>, <<"k", "a", "r", "u">>)
        tryBas == lower = <<"b", "a", "s">> /\ peek(input, id.at) = " "
        bas == compoundKeyword(input, id.at, <<"r", "e">>, <<"a", "t", "a">>)
        rest == IF tryChala THEN chala.at ELSE IF tryBas THEN bas.at ELSE id.at
        tokenType == IF Text(lower) \in DOMAIN keywords THEN keywords[Text(lower)]
                     ELSE "IDENTIFIER"
    IN IF tryChala /\ chala.matched
       THEN [ok |-> TRUE, at |-> chala.at,
             token |-> createToken("CHALA_SURU_KARU",
                 << "c", "h", "a", "l", "a", " ", "s", "u", "r", "u", " ", "k", "a", "r", "u" >>,
                 chala.at)]
       ELSE IF tryBas /\ bas.matched
       THEN [ok |-> TRUE, at |-> bas.at,
             token |-> createToken("BAS_RE_ATA",
                 << "b", "a", "s", " ", "r", "e", " ", "a", "t", "a" >>, bas.at)]
       ELSE [ok |-> TRUE, at |-> rest, token |-> createToken(tokenType, id.value, rest)]

\* the character an escape sequence of a string literal stands for
Escaped(char) ==
    CASE char = "n" -> "\n"
      [] char = "t" -> "\t"
      [] char = "r" -> "\r"
      [] OTHER -> char

RECURSIVE stringFrom(_, _, _, _)
stringFrom(input, at, quote, value) ==
    CASE isAtEnd(input, at) \/ peek(input, at) \in {"\n", "\r"} ->
            [ok |-> FALSE, error |-> [kind |-> "UnterminatedString", line |-> at.line]]
      [] peek(input, at) = quote ->
            [ok |-> TRUE, at |-> advance(input, at),
             token |-> createToken("STRING", value, advance(input, at))]
      [] peek(input, at) = "\\" ->
            stringFrom(input, advance(input, advance(input, at)), quote,
                       Append(value, Escaped(peek(input, advance(input, at)))))
      [] OTHER -> stringFrom(input, advance(input, at), quote, Append(value, peek(input, at)))

\* string(quote): the opening quote is skipped first
string(input, at, quote) == stringFrom(input, advance(input, at), quote, <<>>)

\* value += this.advance() while the next character is a digit
RECURSIVE digitsFrom(_, _, _)
digitsFrom(input, at, value) ==
    IF ~isAtEnd(input, at) /\ isDigit(peek(input, at))
    THEN digitsFrom(input, advance(input, at), Append(value, peek(input, at)))
    ELSE [value |-> value, at |-> at]

number(input, at) ==
    LET whole == digitsFrom(input, at, <<>>)
        fraction == digitsFrom(input, advance(input, whole.at), Append(whole.value, "."))
        all == IF /\ ~isAtEnd(input, whole.at)
                  /\ peek(input, whole.at) = "."
                  /\ isDigit(peekNext(input, whole.at))
               THEN fraction ELSE whole
    IN [ok |-> TRUE, at |-> all.at, token |-> createToken("NUMBER", all.value, all.at)]

\* the single-character tokens of nextToken's switch
SingleCharacterTokens ==
    "+" :> "PLUS" @@ "-" :> "MINUS" @@ "*" :> "MULTIPLY" @@ "/" :> "DIVIDE" @@
    "%" :> "MODULO" @@ "(" :> "LPAREN" @@ ")" :> "RPAREN" @@ "{" :> "LBRACE" @@
    "}" :> "RBRACE" @@ "[" :> "LBRACKET" @@ "]" :> "RBRACKET" @@ ";" :> "SEMICOLON" @@
    "," :> "COMMA" @@ "." :> "DOT" @@ "\n" :> "NEWLINE"

\* one or two characters: `=` `==` `>` `>=` `<` `<=`, and `!=`
OperatorToken(input, at, char, single, double) ==
    IF peekNext(input, at) = "="
    THEN [ok |-> TRUE, at |-> advance(input, advance(input, at)),
          token |-> createToken(double, <<char, "=">>, advance(input, advance(input, at)))]
    ELSE [ok |-> TRUE, at |-> advance(input, at),
          token |-> createToken(single, <<char>>, advance(input, at))]

UnexpectedCharacter(char, at) ==
    [ok |-> FALSE,
     error |-> [kind |-> "UnexpectedCharacter", char |-> char,
                line |-> at.line, column |-> at.column]]

nextToken(input, at) ==
    LET char == peek(input, at) IN
    IF isAlpha(char) THEN handleIdentifierOrKeyword(input, at)
    ELSE IF char = "=" THEN OperatorToken(input, at, char, "ASSIGN", "EQUAL")
    ELSE IF char = "!" /\ peekNext(input, at) = "="
         THEN OperatorToken(input, at, char, "NOT_EQUAL", "NOT_EQUAL")
    ELSE IF char = ">" THEN OperatorToken(input, at, char, "GREATER", "GREATER_EQUAL")
    ELSE IF char = "<" THEN OperatorToken(input, at, char, "LESS", "LESS_EQUAL")
    ELSE IF char \in DOMAIN SingleCharacterTokens
         THEN [ok |-> TRUE, at |-> advance(input, at),
               token |-> createToken(SingleCharacterTokens[char], <<char>>, advance(input, at))]
    ELSE IF char \in {"\"", "'"} THEN string(input, at, char)
    ELSE IF isDigit(char) THEN number(input, at)
    ELSE UnexpectedCharacter(char, at)

\* tokenize() without the push of the EOF token after its loop
tokenize_WithoutEOF(input, at, list) ==
    LET here == skipWhitespace(input, at)
        next == nextToken(input, here)
    IN IF isAtEnd(input, at) \/ isAtEnd(input, here)
       THEN [status |-> "ok", list |-> list]
       ELSE IF peek(input, here) = "/" /\ peekNext(input, here) \in {"/", "*"}
       THEN [status |-> "lexing", list |-> list,
             at |-> IF peekNext(input, here) = "/" THEN skipLineComment(input, here)
                                                   ELSE skipBlockComment(input, here)]
       ELSE IF next.ok
       THEN [status |-> "lexing", at |-> next.at, list |-> Append(list, next.token)]
       ELSE [status |-> "error", error |-> next.error]

\* one turn of the while loop of tokenize(), or its end and the EOF token:
\* what `tokens` is afterwards
tokenize(input, at, list) ==
    LET here == skipWhitespace(input, at)
        next == nextToken(input, here)
    IN IF isAtEnd(input, at) \/ isAtEnd(input, here)
       THEN [status |-> "ok", list |-> Append(list, createToken("EOF", <<>>, here))]
       ELSE IF peek(input, here) = "/" /\ peekNext(input, here) = "/"
       THEN [status |-> "lexing", at |-> skipLineComment(input, here), list |-> list]
       ELSE IF peek(input, here) = "/" /\ peekNext(input, here) = "*"
       THEN [status |-> "lexing", at |-> skipBlockComment(input, here), list |-> list]
       ELSE IF next.ok
       THEN [status |-> "lexing", at |-> next.at, list |-> Append(list, next.token)]
       ELSE [status |-> "error", error |-> next.error]

(***************************************************************************)
(* The parser (parser.ts).  `current` is the index of the next token,      *)
(* 0-based as in the code.  Every parsing method gives either the node it  *)
(* built and the new `current`, or the Error it threw.                     *)
(***************************************************************************)
Parser_peek(list, current) == list[current + 1]

Parser_isAtEnd(list, current) == Parser_peek(list, current).type = "EOF"

\* advance() moves `current` unless the next token is EOF
Parser_advance(list, current) == IF Parser_isAtEnd(list, current) THEN current ELSE current + 1

check(list, current, type) ==
    ~Parser_isAtEnd(list, current) /\ Parser_peek(list, current).type = type

\* match(...types): whether one of the types is next; the token is then consumed
match(list, current, types) == \E type \in types : check(list, current, type)

checkNext(list, current, type) ==
    current + 1 < Len(list) /\ list[current + 2].type = type

\* new Error(`Parse Error at line ${line}, column ${column}: ${message}`)
ParseError(token, message) ==
    [ok |-> FALSE,
     error |-> [line |-> token.line, column |-> token.column, message |-> message]]

consume(list, current, type, message) ==
    IF check(list, current, type)
    THEN [ok |-> TRUE, token |-> Parser_peek(list, current),
          current |-> Parser_advance(list, current)]
    ELSE ParseError(Parser_peek(list, current), message)

Parsed(node, current) == [ok |-> TRUE, node |-> node, current |-> current]

\* while (this.check(TokenType.NEWLINE)) this.advance()
RECURSIVE skipNewlines(_, _)
skipNewlines(list, current) ==
    IF check(list, current, "NEWLINE") THEN skipNewlines(list, current + 1) ELSE current

RECURSIVE declaration(_, _)
RECURSIVE declarations(_, _, _)
RECURSIVE statement(_, _)
RECURSIVE ifStatement(_, _)
RECURSIVE whileStatement(_, _)
RECURSIVE expression(_, _)
RECURSIVE expressionList(_, _, _)
RECURSIVE equalityRest(_, _, _)
RECURSIVE comparison(_, _)
RECURSIVE comparisonRest(_, _, _)
RECURSIVE term(_, _)
RECURSIVE termRest(_, _, _)
RECURSIVE factor(_, _)
RECURSIVE factorRest(_, _, _)
RECURSIVE unary(_, _)
RECURSIVE primary(_, _)

\* a call of a parsing method and what follows it: an Error thrown by the
\* method ends the caller as well, otherwise the caller goes on with the result
Then(result, Continue(_)) == IF result.ok THEN Continue(result) ELSE result

\* do { list.push(this.expression()) } while (this.match(TokenType.COMMA))
expressionList(list, current, nodes) ==
    Then(expression(list, current), LAMBDA e :
        IF match(list, e.current, {"COMMA"})
        THEN expressionList(list, e.current + 1, Append(nodes, e.node))
        ELSE [ok |-> TRUE, nodes |-> Append(nodes, e.node), current |-> e.current])

\* the text of a token: the operator of a unary or binary expression
\* (this.previous().value) or the name of an identifier
Operator(list, current) == Text(Parser_peek(list, current).value)

\* the branches test the type of one token, so at most one of them applies
primary(list, current) ==
    CASE match(list, current, {"KHARA"}) -> Parsed(Literal(Bool(TRUE)), current + 1)
      [] match(list, current, {"KHOTA"}) -> Parsed(Literal(Bool(FALSE)), current + 1)
      [] match(list, current, {"RIKAM"}) -> Parsed(Literal(Null), current + 1)
      [] match(list, current, {"NUMBER", "STRING"}) ->
            Parsed(Literal(Str(Parser_peek(list, current).value)), current + 1)
      [] match(list, current, {"IDENTIFIER"}) /\ ~match(list, current + 1, {"LPAREN"}) ->
            Parsed(Identifier(Operator(list, current)), current + 1)
      [] /\ match(list, current, {"IDENTIFIER"})
         /\ match(list, current + 1, {"LPAREN"})
         /\ check(list, current + 2, "RPAREN") ->
            Parsed(CallExpression(Identifier(Operator(list, current)), <<>>), current + 3)
      [] /\ match(list, current, {"IDENTIFIER"})
         /\ match(list, current + 1, {"LPAREN"})
         /\ ~check(list, current + 2, "RPAREN") ->
            Then(expressionList(list, current + 2, <<>>), LAMBDA args :
            Then(consume(list, args.current, "RPAREN",
                         "Expected \")\" after function arguments."), LAMBDA close :
            Parsed(CallExpression(Identifier(Operator(list, current)), args.nodes),
                   close.current)))
      [] match(list, current, {"LPAREN"}) ->
            Then(expression(list, current + 1), LAMBDA e :
            Then(consume(list, e.current, "RPAREN", "Expected \")\" after expression."),
                 LAMBDA close : Parsed(e.node, close.current)))
      [] OTHER -> ParseError(Parser_peek(list, current), "Expected expression.")

unary(list, current) ==
    IF match(list, current, {"MINUS", "NOT_EQUAL"})
    THEN Then(unary(list, current + 1), LAMBDA right :
         Parsed(UnaryExpression(Operator(list, current), right.node), right.current))
    ELSE primary(list, current)

\* the while loop of factor(): expr is the left operand built so far
factorRest(list, current, expr) ==
    IF match(list, current, {"MULTIPLY", "DIVIDE", "MODULO"})
    THEN Then(unary(list, current + 1), LAMBDA right :
         factorRest(list, right.current,
                    BinaryExpression(expr, Operator(list, current), right.node)))
    ELSE Parsed(expr, current)

factor(list, current) ==
    Then(unary(list, current), LAMBDA left : factorRest(list, left.current, left.node))

\* the loop of term() with the rest of the term as right operand
termRest_RightAssociative(list, current, expr) ==
    IF match(list, current, {"PLUS", "MINUS"})
    THEN Then(term(list, current + 1), LAMBDA right :
         Parsed(BinaryExpression(expr, Operator(list, current), right.node), right.current))
    ELSE Parsed(expr, current)

\* the while loop of term()
termRest(list, current, expr) ==
    IF match(list, current, {"PLUS", "MINUS"})
    THEN Then(factor(list, current + 1), LAMBDA right :
         termRest(list, right.current,
                  BinaryExpression(expr, Operator(list, current), right.node)))
    ELSE Parsed(expr, current)

term(list, current) ==
    Then(factor(list, current), LAMBDA left : termRest(list, left.current, left.node))

\* the while loop of comparison()
comparisonRest(list, current, expr) ==
    IF match(list, current, {"GREATER", "GREATER_EQUAL", "LESS", "LESS_EQUAL"})
    THEN Then(term(list, current + 1), LAMBDA right :
         comparisonRest(list, right.current,
                        BinaryExpression(expr, Operator(list, current), right.node)))
    ELSE Parsed(expr, current)

comparison(list, current) ==
    Then(term(list, current), LAMBDA left : comparisonRest(list, left.current, left.node))

\* the while loop of equality()
equalityRest(list, current, expr) ==
    IF match(list, current, {"EQUAL", "NOT_EQUAL"})
    THEN Then(comparison(list, current + 1), LAMBDA right :
         equalityRest(list, right.current,
                      BinaryExpression(expr, Operator(list, current), right.node)))
    ELSE Parsed(expr, current)

equality(list, current) ==
    Then(comparison(list, current), LAMBDA left :
         equalityRest(list, left.current, left.node))

expression(list, current) == equality(list, current)

\* after the HE_AHE token
varDeclaration(list, current) ==
    Then(consume(list, current, "IDENTIFIER", "Expected variable name."), LAMBDA name :
        IF match(list, name.current, {"ASSIGN"})
        THEN Then(expression(list, name.current + 1), LAMBDA initializer :
             Then(consume(list, initializer.current, "SEMICOLON",
                          "Expected \";\" after variable declaration."), LAMBDA end :
             Parsed(VarDeclaration(Text(name.token.value), initializer.node),
                    end.current)))
        ELSE Then(consume(list, name.current, "SEMICOLON",
                          "Expected \";\" after variable declaration."), LAMBDA end :
             Parsed(VarDeclaration(Text(name.token.value), Absent), end.current)))

assignmentStatement(list, current) ==
    Then(consume(list, current, "IDENTIFIER", "Expected variable name."),
         LAMBDA identifier_ :
    Then(consume(list, identifier_.current, "ASSIGN", "Expected \"=\" in assignment."),
         LAMBDA assign :
    Then(expression(list, assign.current), LAMBDA value :
    Then(consume(list, value.current, "SEMICOLON", "Expected \";\" after assignment."),
         LAMBDA end :
    Parsed(Assignment(Text(identifier_.token.value), value.node), end.current)))))

\* after the DAKHAVA token
printStatement(list, current) ==
    Then(expressionList(list, current, <<>>), LAMBDA expressions :
    Then(consume(list, expressions.current, "SEMICOLON",
                 "Expected \";\" after print statement."), LAMBDA end :
    Parsed(PrintStatement(expressions.nodes), end.current)))

\* while (!this.check(RBRACE) && !this.isAtEnd()) body.push(this.declaration())
declarations(list, current, nodes) ==
    IF ~check(list, current, "RBRACE") /\ ~Parser_isAtEnd(list, current)
    THEN Then(declaration(list, current), LAMBDA d :
         declarations(list, d.current, Append(nodes, d.node)))
    ELSE [ok |-> TRUE, nodes |-> nodes, current |-> current]

\* a block that leaves a body of one statement unwrapped
Block_UnwrapsSingleStatement(list, current, open, close) ==
    Then(consume(list, current, "LBRACE", open), LAMBDA lbrace :
    Then(declarations(list, lbrace.current, <<>>), LAMBDA body :
    Then(consume(list, body.current, "RBRACE", close), LAMBDA rbrace :
    IF Len(body.nodes) = 1 THEN Parsed(body.nodes[1], rbrace.current)
    ELSE Parsed(BlockStatement(body.nodes), rbrace.current))))

\* `{` declarations `}`
Block(list, current, open, close) ==
    Then(consume(list, current, "LBRACE", open), LAMBDA lbrace :
    Then(declarations(list, lbrace.current, <<>>), LAMBDA body :
    Then(consume(list, body.current, "RBRACE", close), LAMBDA rbrace :
    Parsed(BlockStatement(body.nodes), rbrace.current))))

\* `(` expression `)`
Condition(list, current, open, close) ==
    Then(consume(list, current, "LPAREN", open), LAMBDA lparen :
    Then(expression(list, lparen.current), LAMBDA condition :
    Then(consume(list, condition.current, "RPAREN", close), LAMBDA rparen :
    Parsed(condition.node, rparen.current))))

\* after the JAR token (or the NAHITAR_JAR token of an else-if)
ifStatement(list, current) ==
    Then(Condition(list, current, "Expected '(' after 'jar'.",
                   "Expected ')' after if condition."), LAMBDA condition :
    Then(Block(list, condition.current, "Expected '{' before if block.",
               "Expected } after if block."), LAMBDA consequent :
    CASE match(list, consequent.current, {"NAHITAR_JAR"}) ->
            Then(ifStatement(list, consequent.current + 1), LAMBDA elseIf :
            Parsed(IfStatement(condition.node, consequent.node, elseIf.node),
                   elseIf.current))
      [] match(list, consequent.current, {"NAHITAR"}) ->
            Then(Block(list, consequent.current + 1, "Expected '{' before else block.",
                       "Expected } after else block."), LAMBDA elseBlock :
            Parsed(IfStatement(condition.node, consequent.node, elseBlock.node),
                   elseBlock.current))
      [] OTHER ->
            Parsed(IfStatement(condition.node, consequent.node, Absent),
                   consequent.current)))

\* statement() that accepts a token no statement starts with and leaves it
\* where it is, instead of throwing
statement_AcceptsAnything(list, current) ==
    CASE match(list, current, {"DAKHAVA"}) -> printStatement(list, current + 1)
      [] match(list, current, {"JAR"}) -> ifStatement(list, current + 1)
      [] match(list, current, {"PUNHA_KAR"}) -> whileStatement(list, current + 1)
      [] OTHER -> Parsed(PrintStatement(<<>>), current)

\* after the PUNHA_KAR token
whileStatement(list, current) ==
    Then(Condition(list, current, "Expected \"(\" after while keyword.",
                   "Expected \")\" after while condition."), LAMBDA condition :
    Then(Block(list, condition.current, "Expected \"{\" before while body.",
               "Expected \"}\" after while body."), LAMBDA body :
    Parsed(WhileStatement(condition.node, body.node), body.current)))

statement(list, current) ==
    CASE match(list, current, {"DAKHAVA"}) -> printStatement(list, current + 1)
      [] match(list, current, {"JAR"}) -> ifStatement(list, current + 1)
      [] match(list, current, {"PUNHA_KAR"}) -> whileStatement(list, current + 1)
      [] OTHER -> ParseError(Parser_peek(list, current), "Expected statement.")

declaration(list, current) ==
    CASE match(list, current, {"HE_AHE"}) -> varDeclaration(list, current + 1)
      [] check(list, current, "IDENTIFIER") /\ checkNext(list, current, "ASSIGN") ->
            assignmentStatement(list, current)
      [] OTHER -> statement(list, current)

\* the loop of parse() that collects the statements of the program
RECURSIVE programBody(_, _, _)
programBody(list, current, body) ==
    IF \/ check(list, current, "BAS_RE_ATA")
       \/ Parser_isAtEnd(list, current)
       \/ check(list, skipNewlines(list, current), "BAS_RE_ATA")
       \/ Parser_isAtEnd(list, skipNewlines(list, current))
    THEN [ok |-> TRUE, nodes |-> body, current |-> skipNewlines(list, current)]
    ELSE Then(declaration(list, skipNewlines(list, current)), LAMBDA d :
         programBody(list, d.current, Append(body, d.node)))

\* parse() without the two consume() calls for the end marker
parse_WithoutEndMarker(list) ==
    Then(consume(list, skipNewlines(list, 0), "CHALA_SURU_KARU",
                 "Expected \"chala suru karu\" at the beginning of the program."),
         LAMBDA begin :
    Then(consume(list, begin.current, "SEMICOLON",
                 "Expected \";\" after \"chala suru karu\"."), LAMBDA semi :
    Then(programBody(list, semi.current, <<>>), LAMBDA body :
    [ok |-> TRUE, node |-> [type |-> "Program", body |-> body.nodes],
     current |-> body.current])))

parse(list) ==
    Then(consume(list, skipNewlines(list, 0), "CHALA_SURU_KARU",
                 "Expected \"chala suru karu\" at the beginning of the program."),
         LAMBDA begin :
    Then(consume(list, begin.current, "SEMICOLON",
                 "Expected \";\" after \"chala suru karu\"."), LAMBDA semi :
    Then(programBody(list, semi.current, <<>>), LAMBDA body :
    Then(consume(list, body.current, "BAS_RE_ATA",
                 "Expected \"bas re ata\" at the end of the program."), LAMBDA finish :
    Then(consume(list, finish.current, "SEMICOLON",
                 "Expected \";\" after \"bas re ata\"."), LAMBDA last :
    [ok |-> TRUE, node |-> [type |-> "Program", body |-> body.nodes],
     current |-> last.current])))))

(***************************************************************************)
(* The host runs its source through the front end (Playground.tsx, cli.ts):*)
(* new Lexer(source).tokenize(), then new Parser(tokens).parse().  An      *)
(* Error thrown by either ends the run before interpret() is called.       *)
(***************************************************************************)
\* new Lexer(source) and the call of tokenize()
Tokenize ==
    /\ source.given
    /\ tokens.status = "none"
    /\ tokens' = [status |-> "lexing", at |-> LexerStart, list |-> <<>>]
    /\ UNCHANGED <<source, parsed, program, options, environment, stack, ctrl, output,
                   errlog, outcome>>

\* one turn of tokenize()'s loop: blanks and comments are skipped, one token
\* is appended or an Error is thrown; at the end of the input EOF is appended
TokenizeLoop ==
    /\ tokens.status = "lexing"
    /\ tokens' = tokenize(source.text, tokens.at, tokens.list)
    /\ UNCHANGED <<source, parsed, program, options, environment, stack, ctrl, output,
                   errlog, outcome>>

\* new Parser(tokens).parse()
Parse ==
    /\ tokens.status = "ok"
    /\ parsed.status = "none"
    /\ LET result == parse(tokens.list) IN
       IF result.ok
       THEN /\ parsed' = [status |-> "ok", program |-> result.node, current |-> result.current]
            /\ program' = result.node.body
       ELSE /\ parsed' = [status |-> "error", error |-> result.error]
            /\ program' = program
    /\ UNCHANGED <<source, tokens, options, environment, stack, ctrl, output, errlog, outcome>>

(***************************************************************************)
(* The programs and options the interpreter is run on.                     *)
(***************************************************************************)
SeqsUpTo(S, n) == UNION {[1..k -> S] : k \in 0..n}

\* heAhe x = 0;
DeclareX == VarDeclaration("x", NumberLiteral(0))

\* dakhava x;
PrintX == PrintStatement(<<Identifier("x")>>)

ParamLists == SeqsUpTo({"a", "x"}, MaxParams)

ArgLists == SeqsUpTo({NumberLiteral(1), Identifier("x")}, MaxArgs)

\* what the body of the declared function f is
FuncBodies ==
    { <<ReturnStatement(Identifier("a"))>>,
      <<ReturnStatement(Absent)>>,
      <<BreakStatement>>,
      <<ContinueStatement>>,
      <<PrintStatement(<<Identifier("x")>>)>>,
      <<Assignment("x", NumberLiteral(5))>>,
      <<PrintStatement(<<CallExpression(Identifier("f"), <<>>)>>)>>,
      <<VarDeclaration("y", NumberLiteral(2))>>,
      <<VarDeclaration("y", Identifier("u"))>>,
      \* kaamKar h(b) { paratDe b; }  paratDe h(3);
      <<FunctionDeclaration("h", <<"b">>,
            BlockStatement(<<ReturnStatement(Identifier("b"))>>)),
        ReturnStatement(CallExpression(Identifier("h"), <<NumberLiteral(3)>>))>>,
      \* kaamKar h() { thamb; }  heAhe n = 0;
      \* punhaKar (n < 2) { n = n + 1; dakhava h(); }  paratDe 6;
      <<FunctionDeclaration("h", <<>>, BlockStatement(<<BreakStatement>>)),
        VarDeclaration("n", NumberLiteral(0)),
        WhileStatement(BinaryExpression(Identifier("n"), "<", NumberLiteral(2)),
            BlockStatement(<<
                Assignment("n", BinaryExpression(Identifier("n"), "+", NumberLiteral(1))),
                PrintStatement(<<CallExpression(Identifier("h"), <<>>)>>) >>)),
        ReturnStatement(NumberLiteral(6))>>,
      \* punhaKar (khara) { jar (khara) { paratDe 7; } dakhava "n"; }  dakhava "n";
      <<WhileStatement(Literal(Bool(TRUE)),
            BlockStatement(<<
                IfStatement(Literal(Bool(TRUE)),
                            BlockStatement(<<ReturnStatement(NumberLiteral(7))>>), Absent),
                PrintStatement(<<Literal(Str(<<"n">>))>>) >>)),
        PrintStatement(<<Literal(Str(<<"n">>))>>)>> }

\* the statements that call f: alone, and from the body of a loop
CallSites(call) ==
    { PrintStatement(<<call>>),
      WhileStatement(BinaryExpression(Identifier("x"), "<", NumberLiteral(2)),
          BlockStatement(<<
              Assignment("x", BinaryExpression(Identifier("x"), "+", NumberLiteral(1))),
              VarDeclaration("y", call),
              PrintStatement(<<Identifier("x")>>) >>)) }

\* heAhe x = 0; kaamKar f(params) { body }  <a statement that calls f>  dakhava x;
CallPrograms ==
    { <<DeclareX, FunctionDeclaration("f", params, BlockStatement(body)), site, PrintX>> :
        params \in ParamLists, body \in FuncBodies,
        site \in UNION {CallSites(CallExpression(Identifier("f"), args)) : args \in ArgLists} }

\* Nothing observable: heAhe k;
NoSignal == VarDeclaration("k", Absent)

\* heAhe i = 0; heAhe j = 0;
\* punhaKar (i < 2) { i = i + 1; j = 0;
\*   punhaKar (j < 4) { j = j + 1; jar (j == 1) { atOne } jar (j == 3) { atThree }
\*                      dakhava i, j; }
\*   dakhava "o"; }
\* dakhava "e";
NestedLoops(atOne, atThree) ==
    <<VarDeclaration("i", NumberLiteral(0)),
      VarDeclaration("j", NumberLiteral(0)),
      WhileStatement(BinaryExpression(Identifier("i"), "<", NumberLiteral(2)),
        BlockStatement(<<
          Assignment("i", BinaryExpression(Identifier("i"), "+", NumberLiteral(1))),
          Assignment("j", NumberLiteral(0)),
          WhileStatement(BinaryExpression(Identifier("j"), "<", NumberLiteral(4)),
            BlockStatement(<<
              Assignment("j", BinaryExpression(Identifier("j"), "+", NumberLiteral(1))),
              IfStatement(BinaryExpression(Identifier("j"), "==", NumberLiteral(1)),
                          BlockStatement(<<atOne>>), Absent),
              IfStatement(BinaryExpression(Identifier("j"), "==", NumberLiteral(3)),
                          BlockStatement(<<atThree>>), Absent),
              PrintStatement(<<Identifier("i"), Identifier("j")>>) >>)),
          PrintStatement(<<Literal(Str(<<"o">>))>>) >>)),
      PrintStatement(<<Literal(Str(<<"e">>))>>) >>

\* one statement between heAhe x = 0; and dakhava x;
SingleStatements ==
    { BreakStatement, ContinueStatement,
      ReturnStatement(NumberLiteral(1)), ReturnStatement(Absent),
      PlaceholderStatement,
      PrintStatement(<<>>),
      PrintStatement(<<MemberExpression(Identifier("x"), Identifier("x"))>>),
      PrintStatement(<<BinaryExpression(Identifier("x"), "**", NumberLiteral(1))>>),
      PrintStatement(<<UnaryExpression("~", Identifier("x"))>>),
      PrintStatement(<<UnaryExpression("-", NumberLiteral(3)),
                       UnaryExpression("nahi", Identifier("x"))>>),
      PrintStatement(<<CallExpression(Identifier("g"), <<>>)>>),
      PrintStatement(<<CallExpression(Identifier("x"), <<>>)>>),
      PrintStatement(<<CallExpression(Literal(Num(1)), <<>>)>>),
      PrintStatement(<<CallExpression(Identifier("dakhava"), <<>>)>>),
      PrintStatement(<<CallExpression(Identifier("dakhava"),
                                      <<NumberLiteral(1), Identifier("x")>>)>>),
      Assignment("u", NumberLiteral(1)),
      Assignment("x", Identifier("u")),
      VarDeclaration("x", Absent),
      \* { kaamKar h() { }  kaamKar h(b) { dakhava b; } }
      BlockStatement(<<
          FunctionDeclaration("h", <<>>, BlockStatement(<<>>)),
          FunctionDeclaration("h", <<"b">>,
              BlockStatement(<<PrintStatement(<<Identifier("b")>>)>>)) >>),
      IfStatement(Identifier("x"), BlockStatement(<<PrintX>>),
                  BlockStatement(<<Assignment("x", NumberLiteral(4))>>)),
      IfStatement(Identifier("x"), BlockStatement(<<PrintX>>), Absent),
      IfStatement(Literal(Bool(TRUE)), BlockStatement(<<BreakStatement>>), Absent),
      WhileStatement(Identifier("u"), BlockStatement(<<PrintX>>)) }

SinglePrograms == {<<DeclareX, s, PrintX>> : s \in SingleStatements}

LoopSignals == {BreakStatement, ContinueStatement, NoSignal}

LoopPrograms == {NestedLoops(atOne, atThree) : atOne \in LoopSignals, atThree \in LoopSignals}

\* heAhe x = ghye(); dakhava x;
InputPrograms ==
    { <<VarDeclaration("x", CallExpression(Identifier("ghye"), <<>>)), PrintX>>,
      <<PrintStatement(<<Literal(Str(<<"?">>))>>),
        VarDeclaration("x", CallExpression(Identifier("ghye"), <<>>)),
        PrintStatement(<<Literal(Str(<<"=">>)), Identifier("x")>>)>> }

NoInput == [input |-> "none", prompt |-> FALSE]

Options == [input : {"none", "sync", "async"}, prompt : BOOLEAN]

(***************************************************************************)
(* The source texts the front end is run on.                               *)
(***************************************************************************)
\* both markers, comments, a print statement
\*   chala suru karu;
\*   // greet
\*   dakhava "hi", 1 + 2 * 3;
\*   /* done */
\*   bas re ata;
WellFormedSource ==
    << "c", "h", "a", "l", "a", " ", "s", "u", "r", "u", " ", "k", "a", "r", "u", ";",
       "\n", "/", "/", " ", "g", "r", "e", "e", "t", "\n", "d", "a", "k", "h", "a", "v",
       "a", " ", "\"", "h", "i", "\"", ",", " ", "1", " ", "+", " ", "2", " ", "*", " ",
       "3", ";", "\n", "/", "*", " ", "d", "o", "n", "e", " ", "*", "/", "\n", "b", "a",
       "s", " ", "r", "e", " ", "a", "t", "a", ";", "\n" >>

\* no end marker after the statements
\*   chala suru karu;
\*   dakhava 1;
MissingEndSource ==
    << "c", "h", "a", "l", "a", " ", "s", "u", "r", "u", " ", "k", "a", "r", "u", ";",
       "\n", "d", "a", "k", "h", "a", "v", "a", " ", "1", ";", "\n" >>

\* no start marker
\*   dakhava 1;
\*   bas re ata;
MissingStartSource ==
    << "d", "a", "k", "h", "a", "v", "a", " ", "1", ";", "\n", "b", "a", "s", " ", "r",
       "e", " ", "a", "t", "a", ";", "\n" >>

\* no ";" after the start marker
\*   chala suru karu
\*   dakhava 1;
\*   bas re ata;
MissingSemicolonSource ==
    << "c", "h", "a", "l", "a", " ", "s", "u", "r", "u", " ", "k", "a", "r", "u", "\n",
       "d", "a", "k", "h", "a", "v", "a", " ", "1", ";", "\n", "b", "a", "s", " ", "r",
       "e", " ", "a", "t", "a", ";", "\n" >>

\* no ";" after the end marker
\*   chala suru karu;
\*   bas re ata
MissingLastSemicolonSource ==
    << "c", "h", "a", "l", "a", " ", "s", "u", "r", "u", " ", "k", "a", "r", "u", ";",
       "\n", "b", "a", "s", " ", "r", "e", " ", "a", "t", "a" >>

\* the first word of each marker alone
\*   chala;
\*   dakhava 1;
\*   bas;
LoneWordsSource ==
    << "c", "h", "a", "l", "a", ";", "\n", "d", "a", "k", "h", "a", "v", "a", " ", "1",
       ";", "\n", "b", "a", "s", ";", "\n" >>

\* the last word of each marker alone
\*   karu;
\*   dakhava 2;
\*   ata;
OtherWordsSource ==
    << "k", "a", "r", "u", ";", "\n", "d", "a", "k", "h", "a", "v", "a", " ", "2", ";",
       "\n", "a", "t", "a", ";", "\n" >>

\* two words of each marker
\*   chala suru;
\*   dakhava 3;
\*   bas re;
IncompleteMarkersSource ==
    << "c", "h", "a", "l", "a", " ", "s", "u", "r", "u", ";", "\n", "d", "a", "k", "h",
       "a", "v", "a", " ", "3", ";", "\n", "b", "a", "s", " ", "r", "e", ";", "\n" >>

\* a character no token starts with
\*   chala suru karu;
\*   dakhava 1 ! 2;
\*   bas re ata;
UnexpectedCharacterSource ==
    << "c", "h", "a", "l", "a", " ", "s", "u", "r", "u", " ", "k", "a", "r", "u", ";",
       "\n", "d", "a", "k", "h", "a", "v", "a", " ", "1", " ", "!", " ", "2", ";", "\n",
       "b", "a", "s", " ", "r", "e", " ", "a", "t", "a", ";", "\n" >>

\* a string literal that the line ends
\*   chala suru karu;
\*   dakhava "abc;
\*   bas re ata;
UnterminatedStringSource ==
    << "c", "h", "a", "l", "a", " ", "s", "u", "r", "u", " ", "k", "a", "r", "u", ";",
       "\n", "d", "a", "k", "h", "a", "v", "a", " ", "\"", "a", "b", "c", ";", "\n", "b",
       "a", "s", " ", "r", "e", " ", "a", "t", "a", ";", "\n" >>

\* a block comment that is never closed
\*   chala suru karu;
\*   dakhava 1;
\*   /* open
\*   dakhava 2;
\*   bas re ata;
UnterminatedCommentSource ==
    << "c", "h", "a", "l", "a", " ", "s", "u", "r", "u", " ", "k", "a", "r", "u", ";",
       "\n", "d", "a", "k", "h", "a", "v", "a", " ", "1", ";", "\n", "/", "*", " ", "o",
       "p", "e", "n", "\n", "d", "a", "k", "h", "a", "v", "a", " ", "2", ";", "\n", "b",
       "a", "s", " ", "r", "e", " ", "a", "t", "a", ";", "\n" >>

\* README, 5. Else If (nahitarjar)
\*   chala suru karu;
\*   heAhe num = 10;
\*
\*   jar (num > 15) {
\*     dakhava "Number is greater than 15";
\*   } nahitarjar (num > 5) {
\*     dakhava "Number is greater than 5 but not more than 15";
\*   } nahitar {
\*     dakhava "Number is 5 or less";
\*   }
\*
\*   bas re ata;
ElseIfKeywordSource ==
    << "c", "h", "a", "l", "a", " ", "s", "u", "r", "u", " ", "k", "a", "r", "u", ";",
       "\n", "h", "e", "A", "h", "e", " ", "n", "u", "m", " ", "=", " ", "1", "0", ";",
       "\n", "\n", "j", "a", "r", " ", "(", "n", "u", "m", " ", ">", " ", "1", "5", ")",
       " ", "{", "\n", " ", " ", "d", "a", "k", "h", "a", "v", "a", " ", "\"", "N", "u",
       "m", "b", "e", "r", " ", "i", "s", " ", "g", "r", "e", "a", "t", "e", "r", " ", "t",
       "h", "a", "n", " ", "1", "5", "\"", ";", "\n", "}", " ", "n", "a", "h", "i", "t",
       "a", "r", "j", "a", "r", " ", "(", "n", "u", "m", " ", ">", " ", "5", ")", " ", "{",
       "\n", " ", " ", "d", "a", "k", "h", "a", "v", "a", " ", "\"", "N", "u", "m", "b",
       "e", "r", " ", "i", "s", " ", "g", "r", "e", "a", "t", "e", "r", " ", "t", "h", "a",
       "n", " ", "5", " ", "b", "u", "t", " ", "n", "o", "t", " ", "m", "o", "r", "e", " ",
       "t", "h", "a", "n", " ", "1", "5", "\"", ";", "\n", "}", " ", "n", "a", "h", "i",
       "t", "a", "r", " ", "{", "\n", " ", " ", "d", "a", "k", "h", "a", "v", "a", " ",
       "\"", "N", "u", "m", "b", "e", "r", " ", "i", "s", " ", "5", " ", "o", "r", " ",
       "l", "e", "s", "s", "\"", ";", "\n", "}", "\n", "\n", "b", "a", "s", " ", "r", "e",
       " ", "a", "t", "a", ";", "\n" >>

\* the same chain written with the two words nahitar jar
\*   chala suru karu;
\*   heAhe num = 10;
\*
\*   jar (num > 15) {
\*     dakhava "Number is greater than 15";
\*   } nahitar jar (num > 5) {
\*     dakhava "Number is greater than 5 but not more than 15";
\*   } nahitar {
\*     dakhava "Number is 5 or less";
\*   }
\*
\*   bas re ata;
ElseIfTwoWordsSource ==
    << "c", "h", "a", "l", "a", " ", "s", "u", "r", "u", " ", "k", "a", "r", "u", ";",
       "\n", "h", "e", "A", "h", "e", " ", "n", "u", "m", " ", "=", " ", "1", "0", ";",
       "\n", "\n", "j", "a", "r", " ", "(", "n", "u", "m", " ", ">", " ", "1", "5", ")",
       " ", "{", "\n", " ", " ", "d", "a", "k", "h", "a", "v", "a", " ", "\"", "N", "u",
       "m", "b", "e", "r", " ", "i", "s", " ", "g", "r", "e", "a", "t", "e", "r", " ", "t",
       "h", "a", "n", " ", "1", "5", "\"", ";", "\n", "}", " ", "n", "a", "h", "i", "t",
       "a", "r", " ", "j", "a", "r", " ", "(", "n", "u", "m", " ", ">", " ", "5", ")", " ",
       "{", "\n", " ", " ", "d", "a", "k", "h", "a", "v", "a", " ", "\"", "N", "u", "m",
       "b", "e", "r", " ", "i", "s", " ", "g", "r", "e", "a", "t", "e", "r", " ", "t", "h",
       "a", "n", " ", "5", " ", "b", "u", "t", " ", "n", "o", "t", " ", "m", "o", "r", "e",
       " ", "t", "h", "a", "n", " ", "1", "5", "\"", ";", "\n", "}", " ", "n", "a", "h",
       "i", "t", "a", "r", " ", "{", "\n", " ", " ", "d", "a", "k", "h", "a", "v", "a",
       " ", "\"", "N", "u", "m", "b", "e", "r", " ", "i", "s", " ", "5", " ", "o", "r",
       " ", "l", "e", "s", "s", "\"", ";", "\n", "}", "\n", "\n", "b", "a", "s", " ", "r",
       "e", " ", "a", "t", "a", ";", "\n" >>

\* the chain written with a nested if in the else block
\*   chala suru karu;
\*   heAhe num = 10;
\*   jar (num > 15) {
\*     dakhava "a";
\*   } nahitar {
\*     jar (num > 5) {
\*       dakhava "b";
\*     } nahitar {
\*       dakhava "c";
\*     }
\*   }
\*   bas re ata;
NestedElseSource ==
    << "c", "h", "a", "l", "a", " ", "s", "u", "r", "u", " ", "k", "a", "r", "u", ";",
       "\n", "h", "e", "A", "h", "e", " ", "n", "u", "m", " ", "=", " ", "1", "0", ";",
       "\n", "j", "a", "r", " ", "(", "n", "u", "m", " ", ">", " ", "1", "5", ")", " ",
       "{", "\n", " ", " ", "d", "a", "k", "h", "a", "v", "a", " ", "\"", "a", "\"", ";",
       "\n", "}", " ", "n", "a", "h", "i", "t", "a", "r", " ", "{", "\n", " ", " ", "j",
       "a", "r", " ", "(", "n", "u", "m", " ", ">", " ", "5", ")", " ", "{", "\n", " ",
       " ", " ", " ", "d", "a", "k", "h", "a", "v", "a", " ", "\"", "b", "\"", ";", "\n",
       " ", " ", "}", " ", "n", "a", "h", "i", "t", "a", "r", " ", "{", "\n", " ", " ",
       " ", " ", "d", "a", "k", "h", "a", "v", "a", " ", "\"", "c", "\"", ";", "\n", " ",
       " ", "}", "\n", "}", "\n", "b", "a", "s", " ", "r", "e", " ", "a", "t", "a", ";",
       "\n" >>

\* README, 6. Break and Continue
\*   chala suru karu;
\*   heAhe count = 0;
\*
\*   punhaKar (count < 10) {
\*     count = count + 1;
\*     jar (count == 3) {
\*       pudheja;
\*     }
\*     jar (count == 7) {
\*       thamb;
\*     }
\*     dakhava "Number: ", count;
\*   }
\*
\*   bas re ata;
BreakContinueSource ==
    << "c", "h", "a", "l", "a", " ", "s", "u", "r", "u", " ", "k", "a", "r", "u", ";",
       "\n", "h", "e", "A", "h", "e", " ", "c", "o", "u", "n", "t", " ", "=", " ", "0",
       ";", "\n", "\n", "p", "u", "n", "h", "a", "K", "a", "r", " ", "(", "c", "o", "u",
       "n", "t", " ", "<", " ", "1", "0", ")", " ", "{", "\n", " ", " ", "c", "o", "u",
       "n", "t", " ", "=", " ", "c", "o", "u", "n", "t", " ", "+", " ", "1", ";", "\n",
       " ", " ", "j", "a", "r", " ", "(", "c", "o", "u", "n", "t", " ", "=", "=", " ", "3",
       ")", " ", "{", "\n", " ", " ", " ", " ", "p", "u", "d", "h", "e", "j", "a", ";",
       "\n", " ", " ", "}", "\n", " ", " ", "j", "a", "r", " ", "(", "c", "o", "u", "n",
       "t", " ", "=", "=", " ", "7", ")", " ", "{", "\n", " ", " ", " ", " ", "t", "h",
       "a", "m", "b", ";", "\n", " ", " ", "}", "\n", " ", " ", "d", "a", "k", "h", "a",
       "v", "a", " ", "\"", "N", "u", "m", "b", "e", "r", ":", " ", "\"", ",", " ", "c",
       "o", "u", "n", "t", ";", "\n", "}", "\n", "\n", "b", "a", "s", " ", "r", "e", " ",
       "a", "t", "a", ";", "\n" >>

\* README, 7. Logical Operators
\*   chala suru karu;
\*   heAhe num = 7;
\*   heAhe flag = khara;
\*
\*   // Logical AND
\*   jar ((num > 0) ani (num < 10)) {
\*     dakhava num, " is between 1 and 9.";
\*   }
\*
\*   // Logical OR
\*   jar ((num < 0) kimva (num > 5)) {
\*     dakhava num, " is less than 0 or greater than 5.";
\*   }
\*
\*   // Logical NOT
\*   jar (nahi flag) {
\*     dakhava "Flag is false.";
\*   } nahitar {
\*     dakhava "Flag is true.";
\*   }
\*
\*   bas re ata;
LogicalOperatorsSource ==
    << "c", "h", "a", "l", "a", " ", "s", "u", "r", "u", " ", "k", "a", "r", "u", ";",
       "\n", "h", "e", "A", "h", "e", " ", "n", "u", "m", " ", "=", " ", "7", ";", "\n",
       "h", "e", "A", "h", "e", " ", "f", "l", "a", "g", " ", "=", " ", "k", "h", "a", "r",
       "a", ";", "\n", "\n", "/", "/", " ", "L", "o", "g", "i", "c", "a", "l", " ", "A",
       "N", "D", "\n", "j", "a", "r", " ", "(", "(", "n", "u", "m", " ", ">", " ", "0",
       ")", " ", "a", "n", "i", " ", "(", "n", "u", "m", " ", "<", " ", "1", "0", ")", ")",
       " ", "{", "\n", " ", " ", "d", "a", "k", "h", "a", "v", "a", " ", "n", "u", "m",
       ",", " ", "\"", " ", "i", "s", " ", "b", "e", "t", "w", "e", "e", "n", " ", "1",
       " ", "a", "n", "d", " ", "9", ".", "\"", ";", "\n", "}", "\n", "\n", "/", "/", " ",
       "L", "o", "g", "i", "c", "a", "l", " ", "O", "R", "\n", "j", "a", "r", " ", "(",
       "(", "n", "u", "m", " ", "<", " ", "0", ")", " ", "k", "i", "m", "v", "a", " ", "(",
       "n", "u", "m", " ", ">", " ", "5", ")", ")", " ", "{", "\n", " ", " ", "d", "a",
       "k", "h", "a", "v", "a", " ", "n", "u", "m", ",", " ", "\"", " ", "i", "s", " ",
       "l", "e", "s", "s", " ", "t", "h", "a", "n", " ", "0", " ", "o", "r", " ", "g", "r",
       "e", "a", "t", "e", "r", " ", "t", "h", "a", "n", " ", "5", ".", "\"", ";", "\n",
       "}", "\n", "\n", "/", "/", " ", "L", "o", "g", "i", "c", "a", "l", " ", "N", "O",
       "T", "\n", "j", "a", "r", " ", "(", "n", "a", "h", "i", " ", "f", "l", "a", "g",
       ")", " ", "{", "\n", " ", " ", "d", "a", "k", "h", "a", "v", "a", " ", "\"", "F",
       "l", "a", "g", " ", "i", "s", " ", "f", "a", "l", "s", "e", ".", "\"", ";", "\n",
       "}", " ", "n", "a", "h", "i", "t", "a", "r", " ", "{", "\n", " ", " ", "d", "a",
       "k", "h", "a", "v", "a", " ", "\"", "F", "l", "a", "g", " ", "i", "s", " ", "t",
       "r", "u", "e", ".", "\"", ";", "\n", "}", "\n", "\n", "b", "a", "s", " ", "r", "e",
       " ", "a", "t", "a", ";", "\n" >>

\* the "not" keyword alone
\*   chala suru karu;
\*   heAhe flag = khara;
\*   dakhava nahi flag;
\*   bas re ata;
LogicalNotSource ==
    << "c", "h", "a", "l", "a", " ", "s", "u", "r", "u", " ", "k", "a", "r", "u", ";",
       "\n", "h", "e", "A", "h", "e", " ", "f", "l", "a", "g", " ", "=", " ", "k", "h",
       "a", "r", "a", ";", "\n", "d", "a", "k", "h", "a", "v", "a", " ", "n", "a", "h",
       "i", " ", "f", "l", "a", "g", ";", "\n", "b", "a", "s", " ", "r", "e", " ", "a",
       "t", "a", ";", "\n" >>

\* the "and" keyword alone
\*   chala suru karu;
\*   heAhe flag = khara;
\*   dakhava flag ani flag;
\*   bas re ata;
LogicalAndSource ==
    << "c", "h", "a", "l", "a", " ", "s", "u", "r", "u", " ", "k", "a", "r", "u", ";",
       "\n", "h", "e", "A", "h", "e", " ", "f", "l", "a", "g", " ", "=", " ", "k", "h",
       "a", "r", "a", ";", "\n", "d", "a", "k", "h", "a", "v", "a", " ", "f", "l", "a",
       "g", " ", "a", "n", "i", " ", "f", "l", "a", "g", ";", "\n", "b", "a", "s", " ",
       "r", "e", " ", "a", "t", "a", ";", "\n" >>

\* the same declarations twice in a row
\*   chala suru karu;
\*   heAhe x = 1;
\*   heAhe x = 1;
\*   heAhe y;
\*   heAhe y;
\*   heAhe x = x + 1;
\*   heAhe x = x + 1;
\*   dakhava x, y;
\*   bas re ata;
RedeclareSource ==
    << "c", "h", "a", "l", "a", " ", "s", "u", "r", "u", " ", "k", "a", "r", "u", ";",
       "\n", "h", "e", "A", "h", "e", " ", "x", " ", "=", " ", "1", ";", "\n", "h", "e",
       "A", "h", "e", " ", "x", " ", "=", " ", "1", ";", "\n", "h", "e", "A", "h", "e",
       " ", "y", ";", "\n", "h", "e", "A", "h", "e", " ", "y", ";", "\n", "h", "e", "A",
       "h", "e", " ", "x", " ", "=", " ", "x", " ", "+", " ", "1", ";", "\n", "h", "e",
       "A", "h", "e", " ", "x", " ", "=", " ", "x", " ", "+", " ", "1", ";", "\n", "d",
       "a", "k", "h", "a", "v", "a", " ", "x", ",", " ", "y", ";", "\n", "b", "a", "s",
       " ", "r", "e", " ", "a", "t", "a", ";", "\n" >>

\* an assignment to a declared and to an undeclared name
\*   chala suru karu;
\*   heAhe x = 1;
\*   x = x + 4;
\*   u = x;
\*   dakhava x;
\*   bas re ata;
AssignUndefinedSource ==
    << "c", "h", "a", "l", "a", " ", "s", "u", "r", "u", " ", "k", "a", "r", "u", ";",
       "\n", "h", "e", "A", "h", "e", " ", "x", " ", "=", " ", "1", ";", "\n", "x", " ",
       "=", " ", "x", " ", "+", " ", "4", ";", "\n", "u", " ", "=", " ", "x", ";", "\n",
       "d", "a", "k", "h", "a", "v", "a", " ", "x", ";", "\n", "b", "a", "s", " ", "r",
       "e", " ", "a", "t", "a", ";", "\n" >>

\* string literals that are empty, blank, numeric and not numeric
\*   chala suru karu;
\*   dakhava "", " ", "7", "a", khara;
\*   bas re ata;
LiteralsSource ==
    << "c", "h", "a", "l", "a", " ", "s", "u", "r", "u", " ", "k", "a", "r", "u", ";",
       "\n", "d", "a", "k", "h", "a", "v", "a", " ", "\"", "\"", ",", " ", "\"", " ", "\"",
       ",", " ", "\"", "7", "\"", ",", " ", "\"", "a", "\"", ",", " ", "k", "h", "a", "r",
       "a", ";", "\n", "b", "a", "s", " ", "r", "e", " ", "a", "t", "a", ";", "\n" >>

\* a statement after the end marker
\*   chala suru karu;
\*   dakhava 1;
\*   bas re ata;
\*   dakhava 2;
TrailingStatementSource ==
    << "c", "h", "a", "l", "a", " ", "s", "u", "r", "u", " ", "k", "a", "r", "u", ";",
       "\n", "d", "a", "k", "h", "a", "v", "a", " ", "1", ";", "\n", "b", "a", "s", " ",
       "r", "e", " ", "a", "t", "a", ";", "\n", "d", "a", "k", "h", "a", "v", "a", " ",
       "2", ";", "\n" >>

\* the counting loop up to n
\*   chala suru karu;
\*   heAhe count = 1;
\*   punhaKar (count <= n) {
\*     dakhava count;
\*     count = count + 1;
\*   }
\*   bas re ata;
CountingLoopSource(n) ==
    << "c", "h", "a", "l", "a", " ", "s", "u", "r", "u", " ", "k", "a", "r", "u", ";",
       "\n", "h", "e", "A", "h", "e", " ", "c", "o", "u", "n", "t", " ", "=", " ", "1",
       ";", "\n", "p", "u", "n", "h", "a", "K", "a", "r", " ", "(", "c", "o", "u", "n",
       "t", " ", "<", "=", " " >>
    \o NatToString(n) \o
    << ")", " ", "{", "\n", " ", " ", "d", "a", "k", "h", "a", "v", "a", " ", "c", "o",
       "u", "n", "t", ";", "\n", " ", " ", "c", "o", "u", "n", "t", " ", "=", " ", "c",
       "o", "u", "n", "t", " ", "+", " ", "1", ";", "\n", "}", "\n", "b", "a", "s", " ",
       "r", "e", " ", "a", "t", "a", ";", "\n" >>

SourceTexts ==
    { WellFormedSource,
      MissingEndSource,
      MissingStartSource,
      MissingSemicolonSource,
      MissingLastSemicolonSource,
      LoneWordsSource,
      OtherWordsSource,
      IncompleteMarkersSource,
      UnexpectedCharacterSource,
      UnterminatedStringSource,
      UnterminatedCommentSource,
      ElseIfKeywordSource,
      ElseIfTwoWordsSource,
      NestedElseSource,
      BreakContinueSource,
      LogicalOperatorsSource,
      LogicalNotSource,
      LogicalAndSource,
      RedeclareSource,
      AssignUndefinedSource,
      LiteralsSource,
      TrailingStatementSource }
    \cup {CountingLoopSource(n) : n \in 0..MaxCount}

(***************************************************************************)
(* Token lists handed to the parser directly: the token types the lexer    *)
(* never produces are part of TokenType, and parse() takes any Token[].    *)
(***************************************************************************)
Token(type, value) == [type |-> type, value |-> value, line |-> 1, column |-> 1]

StartMarker == << "c", "h", "a", "l", "a", " ", "s", "u", "r", "u", " ", "k", "a", "r", "u" >>

EndMarker == << "b", "a", "s", " ", "r", "e", " ", "a", "t", "a" >>

StartTokens == <<Token("CHALA_SURU_KARU", StartMarker), Token("SEMICOLON", <<";">>)>>

EndTokens == <<Token("BAS_RE_ATA", EndMarker), Token("SEMICOLON", <<";">>), Token("EOF", <<>>)>>

\* ( word )
ConditionTokens(type, word) ==
    <<Token("LPAREN", <<"(">>), Token(type, word), Token("RPAREN", <<")">>)>>

\* { dakhava digit; }
PrintBlockTokens(digit) ==
    << Token("LBRACE", <<"{">>), Token("DAKHAVA", <<"d", "a", "k", "h", "a", "v", "a">>),
       Token("NUMBER", <<digit>>), Token("SEMICOLON", <<";">>), Token("RBRACE", <<"}">>) >>

\* jar (khota) { dakhava 1; } <else-if token> (khara) { dakhava 2; } nahitar { dakhava 3; }
ElseIfTokens ==
    StartTokens
    \o <<Token("JAR", <<"j", "a", "r">>)>> \o ConditionTokens("KHOTA", <<"k", "h", "o", "t", "a">>)
    \o PrintBlockTokens("1")
    \o <<Token("NAHITAR_JAR", <<"n", "a", "h", "i", "t", "a", "r", "j", "a", "r">>)>>
    \o ConditionTokens("KHARA", <<"k", "h", "a", "r", "a">>)
    \o PrintBlockTokens("2")
    \o <<Token("NAHITAR", <<"n", "a", "h", "i", "t", "a", "r">>)>>
    \o PrintBlockTokens("3")
    \o EndTokens

\* NEWLINE tokens before the start marker and between the statements
NewlineTokens ==
    LET newline == Token("NEWLINE", <<"\n">>) IN
    <<newline>> \o StartTokens \o <<newline, newline>>
    \o SubSeq(PrintBlockTokens("4"), 2, 4) \o <<newline>> \o EndTokens

(***************************************************************************)
(* Expressions written out from their trees by a reference grammar with    *)
(* the levels == != below > >= < <= below + - below * / % below unary -,   *)
(* every binary level left-associative: an operand is put in parentheses   *)
(* exactly when the grammar would otherwise read it differently.           *)
(***************************************************************************)
ParsedBinaryOperators == {"==", "!=", ">", ">=", "<", "<=", "+", "-", "*", "/", "%"}

\* the level of the operator at the root of a tree; operands bind tightest
Level(tree) ==
    CASE tree.type = "BinaryExpression" /\ tree.operator \in {"==", "!="} -> 1
      [] tree.type = "BinaryExpression" /\ tree.operator \in {">", ">=", "<", "<="} -> 2
      [] tree.type = "BinaryExpression" /\ tree.operator \in {"+", "-"} -> 3
      [] tree.type = "BinaryExpression" /\ tree.operator \in {"*", "/", "%"} -> 4
      [] tree.type = "UnaryExpression" -> 5
      [] OTHER -> 6

TokenOf(operator) ==
    CASE operator = "==" -> Token("EQUAL", <<"=", "=">>)
      [] operator = "!=" -> Token("NOT_EQUAL", <<"!", "=">>)
      [] operator = ">" -> Token("GREATER", <<">">>)
      [] operator = ">=" -> Token("GREATER_EQUAL", <<">", "=">>)
      [] operator = "<" -> Token("LESS", <<"<">>)
      [] operator = "<=" -> Token("LESS_EQUAL", <<"<", "=">>)
      [] operator = "+" -> Token("PLUS", <<"+">>)
      [] operator = "-" -> Token("MINUS", <<"-">>)
      [] operator = "*" -> Token("MULTIPLY", <<"*">>)
      [] operator = "/" -> Token("DIVIDE", <<"/">>)
      [] operator = "%" -> Token("MODULO", <<"%">>)

RECURSIVE ExpressionTokens(_, _)
\* the tokens of a tree where the grammar expects an operand of level `least`
ExpressionTokens(tree, least) ==
    IF Level(tree) < least
    THEN <<Token("LPAREN", <<"(">>)>> \o ExpressionTokens(tree, 1)
         \o <<Token("RPAREN", <<")">>)>>
    ELSE CASE tree.type = "BinaryExpression" ->
                ExpressionTokens(tree.left, Level(tree))
                \o <<TokenOf(tree.operator)>>
                \o ExpressionTokens(tree.right, Level(tree) + 1)
           [] tree.type = "UnaryExpression" ->
                <<TokenOf(tree.operator)>> \o ExpressionTokens(tree.argument, 5)
           [] OTHER -> <<Token("IDENTIFIER", <<tree.name>>)>>

\* the trees over the operands a, b, c in this order with one or two operators
ReferenceTrees ==
    LET a == Identifier("a")
        b == Identifier("b")
        c == Identifier("c")
        Binary == {BinaryExpression(a, op, b) : op \in ParsedBinaryOperators}
    IN  Binary
        \cup {BinaryExpression(left, op, c) : left \in Binary, op \in ParsedBinaryOperators}
        \cup {BinaryExpression(a, op, BinaryExpression(b, inner, c)) :
                 op \in ParsedBinaryOperators, inner \in ParsedBinaryOperators}
        \cup {UnaryExpression("-", a), UnaryExpression("-", UnaryExpression("-", a))}
        \cup {UnaryExpression("-", tree) : tree \in Binary}
        \cup {BinaryExpression(UnaryExpression("-", a), op, b) : op \in ParsedBinaryOperators}
        \cup {BinaryExpression(a, op, UnaryExpression("-", b)) : op \in ParsedBinaryOperators}

\* chala suru karu; dakhava <the expression of the tree>; bas re ata;
ExpressionProgramTokens(tree) ==
    StartTokens
    \o <<Token("DAKHAVA", <<"d", "a", "k", "h", "a", "v", "a">>)>>
    \o ExpressionTokens(tree, 1)
    \o <<Token("SEMICOLON", <<";">>)>>
    \o EndTokens

\* each tree with the tokens of its program
ReferencePrograms ==
    {[tree |-> tree, list |-> ExpressionProgramTokens(tree)] : tree \in ReferenceTrees}

\* the first n tokens of the else-if program followed by EOF: programs that
\* end inside a condition, a block or a statement
TruncatedTokenLists ==
    {SubSeq(ElseIfTokens, 1, n) \o <<Token("EOF", <<>>)>> : n \in 0..(Len(ElseIfTokens) - 2)}

TokenLists ==
    {ElseIfTokens, NewlineTokens} \cup TruncatedTokenLists
    \cup {reference.list : reference \in ReferencePrograms}

NoSource == [given |-> FALSE]

NotYet == [status |-> "none"]

(***************************************************************************)
(* A run starts from a Program handed to interpret(), from a source text   *)
(* that goes through lexer and parser first, or from a token list handed   *)
(* to the parser.  The interpreter is a new Interpreter(options).          *)
(***************************************************************************)
Init ==
    /\ \/ /\ source = NoSource
          /\ tokens = NotYet
          /\ parsed = [status |-> "given"]
          /\ \/ /\ program \in CallPrograms \cup SinglePrograms \cup LoopPrograms
                /\ options = NoInput
             \/ /\ program \in InputPrograms
                /\ options \in Options
       \/ /\ source \in {[given |-> TRUE, text |-> text] : text \in SourceTexts}
          /\ tokens = NotYet
          /\ parsed = NotYet
          /\ program = <<>>
          /\ options = NoInput
       \/ /\ source = NoSource
          /\ tokens \in {[status |-> "ok", list |-> list] : list \in TokenLists}
          /\ parsed = NotYet
          /\ program = <<>>
          /\ options = NoInput
    /\ environment = NewEnvironment(0)
    /\ stack = <<>>
    /\ ctrl = [mode |-> "idle"]
    /\ output = <<>>
    /\ errlog = <<>>
    /\ outcome = [status |-> "none"]

Next ==
    \/ Tokenize
    \/ TokenizeLoop
    \/ Parse
    \/ Interpret
    \/ InterpretLoop
    \/ InterpretCatchRuntimeError
    \/ InterpretCatchError
    \/ InterpretCatchUnknown
    \/ ExecuteVarDeclaration
    \/ VarDeclarationDefine
    \/ ExecuteAssignment
    \/ AssignmentSet
    \/ ExecutePrintStatement
    \/ PrintNext
    \/ ExecuteIfStatement
    \/ IfBranch
    \/ ExecuteBlockStatement
    \/ BlockNext
    \/ ExecuteWhileStatement
    \/ WhileTest
    \/ WhileBodyDone
    \/ WhileCatchBreak
    \/ WhileCatchContinue
    \/ WhileRethrow
    \/ ExecuteBreakStatement
    \/ ExecuteContinueStatement
    \/ ExecuteFunctionDeclaration
    \/ ExecuteReturnStatement
    \/ ReturnThrow
    \/ ExecuteUnknownStatement
    \/ Propagate
    \/ EvaluateLiteral
    \/ EvaluateIdentifier
    \/ EvaluateBinaryExpression
    \/ BinaryRight
    \/ BinaryApply
    \/ EvaluateUnaryExpression
    \/ UnaryApply
    \/ EvaluateUnknownExpression
    \/ GhyeSync
    \/ GhyeAwait
    \/ InputSettle
    \/ GhyePrompt
    \/ GhyeUnavailable
    \/ DakhavaCall
    \/ DakhavaNext
    \/ CallUndefinedName
    \/ CallNotAFunction
    \/ CallNonIdentifier
    \/ CallArityMismatch
    \/ CallEnter
    \/ CallBindParameter
    \/ CallBodyDone
    \/ CallCatchReturn
    \/ CallRethrow
    \/ CallArgumentThrows

Spec == Init /\ [][Next]_vars

TypeOK ==
    /\ source.given \in BOOLEAN
    /\ tokens.status \in {"none", "lexing", "ok", "error"}
    /\ parsed.status \in {"none", "given", "ok", "error"}
    /\ (parsed.status \in {"none", "error"}) => (program = <<>> /\ ctrl.mode = "idle")
    /\ ctrl.mode \in {"idle", "exec", "eval", "value", "done", "throw", "await", "end"}
    /\ outcome.status \in {"none", "returned", "thrown"}
    /\ (ctrl.mode = "end") = (outcome.status # "none")
    /\ (stack = <<>>) = (ctrl.mode \in {"idle", "end"})
    /\ \A i \in 1..Len(stack) : (stack[i].k = "interpret") = (i = 1)

\* localEnv of a call whose parameters are being bound is the current environment
LocalEnvIsCurrent ==
    (ctrl.mode = "value" /\ OnFrame("callArgs")) => environment.id = Top.localEnv

(***************************************************************************)
(* Function calls and the current environment.                             *)
(***************************************************************************)
\* a step that ends the activation of a user-function call, whichever way
CallEnds == stack # <<>> /\ IsCallFrame(Top) /\ stack' = Pop

\* C1: once a call of a user-defined function is over, the current
\* environment is again the one that was current just before the call,
\* whether the body completed, a return was caught, or a thrown value left
\* the argument evaluation or the body.
C1_EnvironmentRestoredAfterCall ==
    [][CallEnds => environment' = Top.previousEnv]_vars

\* the interpreter is about to evaluate an argument expression of a call
EvaluatingArgument == ctrl.mode = "eval" /\ OnFrame("callArgs")

\* C2: every argument expression of a call is evaluated in the caller's
\* environment: while an argument is evaluated the current environment is
\* the caller's, and an identifier bound there yields that variable's value.
C2_ArgumentsEvaluatedInCallerEnvironment ==
    [][EvaluatingArgument =>
         /\ environment = Top.previousEnv
         /\ (ctrl.node.type = "Identifier" /\ EnvHas(Top.previousEnv, ctrl.node.name))
              => ctrl' = Value(EnvGet(Top.previousEnv, ctrl.node.name))]_vars

InFunctionBody == \E i \in 1..Len(stack) : stack[i].k = "callBody"

\* the frames of the calls whose caller was the global environment
GlobalCallers == {i \in 1..Len(stack) : IsCallFrame(stack[i]) /\ stack[i].previousEnv.id = 0}

GlobalKnown == environment.id = 0 \/ GlobalCallers # {}

\* the Environment created by the constructor, while something refers to it
GlobalEnvironment ==
    IF environment.id = 0 THEN environment
    ELSE stack[CHOOSE i \in GlobalCallers : TRUE].previousEnv

\* inside a function body, a name that only the global scope binds is read
ReadsGlobalFromBody ==
    /\ InFunctionBody
    /\ GlobalKnown
    /\ Evaluating("Identifier")
    /\ ~EnvHas(environment, ctrl.node.name)
    /\ EnvHas(GlobalEnvironment, ctrl.node.name)

\* inside a function body, a function that only the global scope binds is called
CallsGlobalFromBody ==
    /\ InFunctionBody
    /\ GlobalKnown
    /\ CallingUser
    /\ ~EnvHas(environment, ctrl.node.callee.name)
    /\ EnvHas(GlobalEnvironment, ctrl.node.callee.name)
    /\ EnvGet(GlobalEnvironment, ctrl.node.callee.name).t = "func"

\* C3: the environment of a call has the global environment as parent: in a
\* function body, reading a name bound only in the global scope yields the
\* global binding, and a globally declared function can be called (so the
\* call does not fail on the lookup of its name).
C3_FunctionBodyReachesGlobalScope ==
    [][/\ ReadsGlobalFromBody
          => ctrl' = Value(EnvGet(GlobalEnvironment, ctrl.node.name))
       /\ CallsGlobalFromBody
          => ~(ctrl'.mode = "throw" /\ ctrl'.exc.cls = "RuntimeError"
               /\ ctrl'.exc.message.kind = "UndefinedVariable")]_vars

IsLoopSignal(exc) == exc.cls \in {"BreakException", "ContinueException"}

\* C4: a break or continue signal stops at a function boundary: the catch of
\* a loop never receives a signal that has left a function call.
C4_LoopSignalStopsAtFunctionBoundary ==
    (ctrl.mode = "throw" /\ IsLoopSignal(ctrl.exc) /\ OnFrame("whileBody"))
        => ctrl.calls = 0

\* C5: no break, continue or return signal is ever thrown to the caller of
\* interpret().
C5_NoControlSignalLeavesInterpret ==
    outcome.status = "thrown"
        => outcome.exc.cls \notin {"BreakException", "ContinueException", "ReturnException"}

(***************************************************************************)
(* Loops.                                                                  *)
(***************************************************************************)
\* the output of NestedLoops(ContinueStatement, BreakStatement)
ContinueBreakOutput == << <<"1", "2">>, <<"o">>, <<"2", "2">>, <<"o">>, <<"e">> >>

\* C6: the condition of a WhileStatement is evaluated before every
\* iteration (a body execution starts only from a truthy result of the
\* condition of that loop, a falsy one ends the loop); a break caught by a
\* loop ends that loop alone, leaving the activations around it as they are
\* and going on after it; a continue makes the loop evaluate its condition
\* next.  The nested loops with continue at j = 1 and break at j = 3 print
\* 12, o, 22, o, e.
C6_WhileLoopSemantics ==
    /\ [][/\ (ctrl'.mode = "exec" /\ stack' # <<>> /\ Top'.k = "whileBody")
             => /\ ctrl.mode = "value"
                /\ Truthy(ctrl.value)
                /\ OnFrame("whileCond")
                /\ stack' = ReplaceTop([k |-> "whileBody", statement |-> Top.statement])
                /\ ctrl' = Exec(Top.statement.body)
          /\ (ctrl.mode = "value" /\ OnFrame("whileCond") /\ ~Truthy(ctrl.value))
             => (stack' = Pop /\ ctrl' = Done)
          /\ (ctrl.mode = "throw" /\ OnFrame("whileBody")
                /\ ctrl.exc.cls = "BreakException")
             => (stack' = Pop /\ ctrl' = Done /\ environment' = environment)
          /\ (ctrl.mode \in {"throw", "done"} /\ OnFrame("whileBody")
                /\ (ctrl.mode = "throw" => ctrl.exc.cls = "ContinueException"))
             => /\ stack' = ReplaceTop([k |-> "whileCond", statement |-> Top.statement])
                /\ ctrl' = Eval(Top.statement.condition)]_vars
    /\ [](ctrl.mode = "end" /\ program = NestedLoops(ContinueStatement, BreakStatement)
            => output = ContinueBreakOutput)

\* NestedLoops(continue, break) has run to its end with both signals caught
C6_Witness ==
    /\ ctrl.mode = "end"
    /\ program = NestedLoops(ContinueStatement, BreakStatement)
    /\ output = ContinueBreakOutput
    /\ outcome.status = "returned"

(***************************************************************************)
(* Errors.                                                                 *)
(***************************************************************************)
RuntimeErrorThrown == ctrl.mode = "throw" /\ ctrl.exc.cls = "RuntimeError"

\* C7: from the moment a statement raises a RuntimeError nothing more is
\* executed: the error travels unchanged to interpret(), which logs its
\* message and returns without throwing; no output is sent and no binding
\* changes on the way.
C7_RuntimeErrorStopsInterpretation ==
    [][RuntimeErrorThrown =>
         /\ output' = output
         /\ environment' = environment
         /\ ctrl'.mode \in {"throw", "end"}
         /\ ctrl'.mode = "throw" => ctrl'.exc = ctrl.exc
         /\ ctrl'.mode = "end" =>
              /\ outcome' = [status |-> "returned"]
              /\ errlog' = Append(errlog, [text |-> "message",
                                           message |-> ctrl.exc.message])]_vars

\* x = u; failed on the undefined u: logged, and the dakhava x; after it never ran
C7_Witness ==
    /\ ctrl.mode = "end"
    /\ program = <<DeclareX, Assignment("x", Identifier("u")), PrintX>>
    /\ outcome = [status |-> "returned"]
    /\ errlog = <<[text |-> "message",
                   message |-> [kind |-> "UndefinedVariable", name |-> "u"]]>>
    /\ output = <<>>
    /\ EnvGet(environment, "x") = Num(0)

ReachesInterpretCatch == ctrl.mode = "throw" /\ OnFrame("interpret")

UnknownErrorLogged == errlog' = Append(errlog, [text |-> "An unknown error occurred."])

\* C8 as stated: every thrown value that is not a RuntimeError is logged as
\* an unknown error and thrown again; only RuntimeErrors are swallowed.
C8_EveryNonRuntimeErrorRethrown ==
    [][(ReachesInterpretCatch /\ ctrl.exc.cls # "RuntimeError")
         => (UnknownErrorLogged /\ outcome' = [status |-> "thrown", exc |-> ctrl.exc])]_vars

\* C8 as amended: a thrown value that is neither a RuntimeError nor any
\* other Error is logged as an unknown error and thrown again to the caller
\* of interpret(); an Error that is no RuntimeError is logged with the
\* "Runtime Error: " prefix and swallowed, like a RuntimeError.
C8_OnlyNonErrorsRethrown ==
    [][ReachesInterpretCatch =>
         IF ctrl.exc.cls \in {"RuntimeError", "Error"}
         THEN /\ outcome' = [status |-> "returned"]
              /\ ~UnknownErrorLogged
              /\ Len(errlog') = Len(errlog) + 1
         ELSE /\ UnknownErrorLogged
              /\ outcome' = [status |-> "thrown", exc |-> ctrl.exc]]_vars

\* the input provider rejected with a value that is no Error: logged, thrown again
C8_Witness ==
    /\ ctrl.mode = "end"
    /\ outcome = [status |-> "thrown", exc |-> HostRejection]
    /\ errlog = <<[text |-> "An unknown error occurred."]>>

\* no FunctionDeclaration of the program has this name
NeverDeclared(name) ==
    \A i \in 1..Len(program) :
        program[i].type = "FunctionDeclaration" => program[i].name # name

\* C9: calling a name that was never declared as a function fails with the
\* "Unknown function" runtime error, and sends no output.
C9_UndeclaredCallIsUnknownFunction ==
    [][(CallingUser /\ NeverDeclared(ctrl.node.callee.name))
         => /\ ctrl' = Throw(RuntimeError([kind |-> "UnknownFunction",
                                           name |-> ctrl.node.callee.name]))
            /\ output' = output]_vars

ArityMismatch == CallingFunction /\ Len(ctrl.node.arguments) # Len(Callee.parameters)

\* C10: a call whose name resolves to a declared function and whose number
\* of arguments differs from the number of parameters throws the arity
\* RuntimeError with the name, the expected and the actual count, at once:
\* no environment is installed, no argument is evaluated, no body runs.
C10_ArityMismatchFailsBeforeTheCall ==
    [][ArityMismatch =>
         /\ ctrl' = Throw(RuntimeError([kind |-> "Arity",
                                        name |-> ctrl.node.callee.name,
                                        expected |-> Len(Callee.parameters),
                                        actual |-> Len(ctrl.node.arguments)]))
         /\ environment' = environment
         /\ stack' = stack
         /\ output' = output]_vars

\* f has two parameters and was called with one argument
C10_Witness ==
    /\ ctrl.mode = "throw"
    /\ ctrl.exc = RuntimeError([kind |-> "Arity", name |-> "f", expected |-> 2, actual |-> 1])
    /\ environment.id = 0
    /\ EnvGet(environment, "f").decl.parameters = <<"a", "x">>

(***************************************************************************)
(* The front end: what the parser accepts and what the lexer produces.     *)
(***************************************************************************)
\* parse() was called and has returned or thrown
ParseEnded == tokens.status = "ok" /\ parsed.status \in {"ok", "error"}

HasEndMarker == \E i \in 1..Len(tokens.list) : tokens.list[i].type = "BAS_RE_ATA"

\* the list is: start marker, ';', statements, and then EOF where the end
\* marker should be
StatementsThenEOF ==
    LET list == tokens.list
        first == skipNewlines(list, 0)
    IN /\ ~HasEndMarker
       /\ list[first + 1].type = "CHALA_SURU_KARU"
       /\ list[first + 2].type = "SEMICOLON"
       /\ programBody(list, first + 2, <<>>).ok

\* C11: parse() returns a Program only for a token list of the shape start
\* marker, ';', statements, end marker, ';' (NEWLINE tokens in front of the
\* start marker aside); a list with no end marker gives no Program, and when
\* its statements are followed by EOF the Error names the expected end marker
\* and carries the line and column of that EOF token.
C11_ParseRequiresBothMarkers ==
    ParseEnded =>
        LET list == tokens.list
            first == skipNewlines(list, 0)
        IN /\ parsed.status = "ok" =>
                /\ list[first + 1].type = "CHALA_SURU_KARU"
                /\ list[first + 2].type = "SEMICOLON"
                /\ parsed.current >= first + 4
                /\ list[parsed.current - 1].type = "BAS_RE_ATA"
                /\ list[parsed.current].type = "SEMICOLON"
                /\ programBody(list, first + 2, <<>>) =
                       [ok |-> TRUE, nodes |-> program, current |-> parsed.current - 2]
           /\ ~HasEndMarker =>
                /\ parsed.status = "error"
                /\ program = <<>>
                /\ ~ENABLED Interpret
           /\ StatementsThenEOF =>
                parsed.error =
                    [message |-> "Expected \"bas re ata\" at the end of the program.",
                     line |-> list[Len(list)].line,
                     column |-> list[Len(list)].column]

\* the source with a statement and no end marker has been rejected
C11_Witness ==
    /\ source = [given |-> TRUE, text |-> MissingEndSource]
    /\ ParseEnded
    /\ StatementsThenEOF
    /\ parsed.status = "error"

\* the tokens tokenize() has produced so far from the source text
Lexed == IF source.given /\ tokens.status \in {"lexing", "ok"} THEN tokens.list ELSE <<>>

\* C12: the lexer gives a token the start-marker type only for the whole
\* sequence "chala suru karu" and the end-marker type only for "bas re ata",
\* so a source with one of the words alone (chala; ... bas;) or with an
\* incomplete sequence is never accepted by the parser.
C12_MarkerTokensOnlyForFullSequence ==
    /\ \A i \in 1..Len(Lexed) :
          /\ Lexed[i].type = "CHALA_SURU_KARU" => Lexed[i].value = StartMarker
          /\ Lexed[i].type = "BAS_RE_ATA" => Lexed[i].value = EndMarker
    /\ (source.given /\ source.text \in {LoneWordsSource, OtherWordsSource, IncompleteMarkersSource})
          => parsed.status # "ok"

(***************************************************************************)
(* Whole programs, from source text to output.                             *)
(***************************************************************************)
\* the run is that of the counting loop with limit n
CountsTo(n) == source = [given |-> TRUE, text |-> CountingLoopSource(n)]

Counting == \E n \in 0..MaxCount : CountsTo(n)

\* the outputs 1, 2, ..., n
CountingLoopOutputs(n) == [i \in 1..n |-> NatToString(i)]

IsPrefix(s, t) == Len(s) <= Len(t) /\ s = SubSeq(t, 1, Len(s))

\* what holds all along the run of a counting loop
CountingLoopRuns ==
    \A n \in 0..MaxCount : CountsTo(n) =>
        /\ IsPrefix(output, CountingLoopOutputs(n))
        /\ tokens.status # "error"
        /\ parsed.status # "error"
        /\ ctrl.mode # "throw"
        /\ (ctrl.mode = "done" /\ OnFrame("whileBody"))
               => EnvGet(environment, "count") = Num(Len(output) + 1)
        /\ ctrl.mode = "end" =>
               /\ output = CountingLoopOutputs(n)
               /\ outcome = [status |-> "returned"]
               /\ errlog = <<>>

\* C13: the counting loop with limit N, run through lexer, parser and
\* interpreter, sends the outputs 1, 2, ..., N in this order, one in each
\* iteration (count is one more than the number of outputs whenever the
\* body has ended), nothing is thrown (no break, no error), and when
\* interpret() has returned the outputs are exactly 1, ..., N.
C13_CountingLoopOutputsOneToN == CountingLoopRuns

\* the run with the largest limit has ended after all its outputs
C13_Witness ==
    /\ CountsTo(MaxCount)
    /\ ctrl.mode = "end"
    /\ output = CountingLoopOutputs(MaxCount)
    /\ Len(output) = MaxCount

(***************************************************************************)
(* The token list that tokenize() returns.                                 *)
(***************************************************************************)
\* tokenize() has returned the list tokens.list for the source text
Tokenized == source.given /\ tokens.status = "ok"

EOFTokens(list) == {i \in 1..Len(list) : list[i].type = "EOF"}

\* C14: for every source text on which tokenize() returns, the returned
\* list holds exactly one EOF token and it is the last element; while the
\* loop of tokenize() runs the list holds no EOF token.
C14_EndsWithExactlyOneEOF ==
    /\ Tokenized => /\ tokens.list # <<>>
                    /\ EOFTokens(tokens.list) = {Len(tokens.list)}
    /\ (source.given /\ tokens.status = "lexing") => EOFTokens(tokens.list) = {}

\* tokenize() has returned a list with the tokens of a program in front
\* of the EOF token
C14_Witness ==
    /\ Tokenized
    /\ Len(tokens.list) > MaxCount
    /\ tokens.list[Len(tokens.list)].type = "EOF"
    /\ tokens.list[1].type = "CHALA_SURU_KARU"

(***************************************************************************)
(* The README's programs, from source text to output.                      *)
(***************************************************************************)
\* the run is that of the source text
Runs(text) == source = [given |-> TRUE, text |-> text]

\* lexer and parser have accepted the source, nothing was thrown at run time
Accepted == tokens.status # "error" /\ parsed.status # "error" /\ ctrl.mode # "throw"

\* interpret() has returned and these were the outputs
Printed(lines) ==
    ctrl.mode = "end" => output = lines /\ outcome = [status |-> "returned"] /\ errlog = <<>>

\* "Number is greater than 5 but not more than 15"
MiddleBranchLine ==
    << "N", "u", "m", "b", "e", "r", " ", "i", "s", " ", "g", "r", "e", "a", "t", "e", "r",
       " ", "t", "h", "a", "n", " ", "5", " ", "b", "u", "t", " ", "n", "o", "t", " ", "m",
       "o", "r", "e", " ", "t", "h", "a", "n", " ", "1", "5" >>

\* C15: an else-if chain is accepted in both written forms, nahitarjar
\* (cond) {...} and nahitar jar (cond) {...}, when the source goes through
\* lexer and parser, and at run time exactly the first branch with a truthy
\* condition executes: the README program with num = 10 prints only the
\* line of the middle branch.
C15_ElseIfChainInBothForms ==
    \A text \in {ElseIfKeywordSource, ElseIfTwoWordsSource} :
        Runs(text) => Accepted /\ Printed(<<MiddleBranchLine>>)

\* "Number: " and the number, as dakhava "Number: ", count; prints them
NumberLine(n) ==
    << "N", "u", "m", "b", "e", "r", ":", " " >> \o NatToString(n)

\* C16: the README's break/continue program (count from 0 while count < 10,
\* increment first, pudheja when count == 3, thamb when count == 7, then
\* print) is accepted by lexer and parser and prints a line for 1, 2, 4, 5,
\* 6 in this order and nothing else.
C16_BreakContinueProgram ==
    Runs(BreakContinueSource) =>
        /\ Accepted
        /\ Printed(<<NumberLine(1), NumberLine(2), NumberLine(4), NumberLine(5), NumberLine(6)>>)

\* "7 is between 1 and 9."
BetweenLine ==
    << "7", " ", "i", "s", " ", "b", "e", "t", "w", "e", "e", "n", " ", "1", " ", "a", "n",
       "d", " ", "9", "." >>

\* "7 is less than 0 or greater than 5."
LessOrGreaterLine ==
    << "7", " ", "i", "s", " ", "l", "e", "s", "s", " ", "t", "h", "a", "n", " ", "0", " ",
       "o", "r", " ", "g", "r", "e", "a", "t", "e", "r", " ", "t", "h", "a", "n", " ", "5",
       "." >>

\* "Flag is true."
FlagIsTrueLine ==
    << "F", "l", "a", "g", " ", "i", "s", " ", "t", "r", "u", "e", "." >>

\* C17: the logical operators are usable from source: a ani b, a kimva b
\* and nahi e are accepted by lexer and parser wherever an expression
\* stands, nahi e evaluates to the logical negation of e, and the README's
\* logical-operators program prints its three expected lines.
C17_LogicalOperatorsFromSource ==
    /\ Runs(LogicalOperatorsSource) =>
           Accepted /\ Printed(<<BetweenLine, LessOrGreaterLine, FlagIsTrueLine>>)
    /\ Runs(LogicalNotSource) => Accepted /\ Printed(<<<<"f", "a", "l", "s", "e">>>>)
    /\ Runs(LogicalAndSource) => Accepted /\ Printed(<<<<"t", "r", "u", "e">>>>)

(***************************************************************************)
(* The shape of the Program that parse() returns.                          *)
(***************************************************************************)
\* In the tree under node, the consequent of every IfStatement and the body
\* of every WhileStatement is a BlockStatement, and so is every alternate;
\* with chain, an alternate may also be the IfStatement of an else-if.
RECURSIVE BlockBodied(_, _)
BlockBodied(node, chain) ==
    CASE node.type = "IfStatement" ->
            /\ node.consequent.type = "BlockStatement"
            /\ BlockBodied(node.consequent, chain)
            /\ \/ node.alternate = Absent
               \/ /\ \/ node.alternate.type = "BlockStatement"
                     \/ chain /\ node.alternate.type = "IfStatement"
                  /\ BlockBodied(node.alternate, chain)
      [] node.type = "WhileStatement" ->
            /\ node.body.type = "BlockStatement"
            /\ BlockBodied(node.body, chain)
      [] node.type \in {"Program", "BlockStatement"} ->
            \A i \in 1..Len(node.body) : BlockBodied(node.body[i], chain)
      [] OTHER -> TRUE

\* parse() has returned the Program parsed.program
Returned == parsed.status = "ok"

\* C18 as stated: in every Program returned by parse(), the consequent of
\* every IfStatement, the alternate of every IfStatement that has one, and
\* the body of every WhileStatement is a BlockStatement node.
C18_EveryBodyIsABlock == Returned => BlockBodied(parsed.program, FALSE)

\* C18 as amended: in every Program returned by parse(), the consequent of
\* every IfStatement and the body of every WhileStatement is a
\* BlockStatement node; the alternate of an IfStatement that has one is a
\* BlockStatement node (after NAHITAR) or the IfStatement node of an else-if
\* (after NAHITAR_JAR), of which the same holds.
C18_BodiesAreBlocksOrElseIf == Returned => BlockBodied(parsed.program, TRUE)

\* parse() has returned the Program of an else-if chain: the alternate is
\* an IfStatement whose own alternate is the block of the final else
C18_Witness ==
    /\ Returned
    /\ tokens.list = ElseIfTokens
    /\ parsed.program.body[1].type = "IfStatement"
    /\ parsed.program.body[1].consequent.type = "BlockStatement"
    /\ parsed.program.body[1].alternate.type = "IfStatement"
    /\ parsed.program.body[1].alternate.alternate.type = "BlockStatement"

(***************************************************************************)
(* Assignment and redeclaration.                                           *)
(***************************************************************************)
\* executeAssignment has the value and is about to call environment.set
Assigning == ctrl.mode = "value" /\ OnFrame("assign")

\* the name is bound in the global scope only, and the assignment is in a
\* function body, whose scope has the global scope as its parent
AssignsGlobalFromBody ==
    /\ Assigning
    /\ InFunctionBody
    /\ GlobalKnown
    /\ ~EnvHas(environment, Top.identifier)
    /\ EnvHas(GlobalEnvironment, Top.identifier)

\* C19: assigning to a name that no scope defines fails with the "cannot
\* assign to undefined variable" error and leaves every environment
\* unchanged (no binding is created); assigning to a defined name changes
\* only the nearest existing binding of that name: the current scope's, or
\* else the enclosing (global) scope's.
C19_AssignmentChangesNearestBinding ==
    [][Assigning =>
         IF EnvHas(environment, Top.identifier)
         THEN /\ environment' = EnvDefine(environment, Top.identifier, ctrl.value)
              /\ stack' = Pop
              /\ ctrl' = Done
         ELSE IF AssignsGlobalFromBody
         THEN /\ ctrl' = Done
              /\ environment' = environment
              /\ EnvGet(GlobalEnvironment', Top.identifier) = ctrl.value
         ELSE /\ ctrl' = Throw(RuntimeError([kind |-> "CannotAssign",
                                             name |-> Top.identifier]))
              /\ environment' = environment
              /\ stack' = Pop]_vars

\* executeVarDeclaration is about to call environment.define
DefiningVar ==
    \/ ctrl.mode = "value" /\ OnFrame("varDecl")
    \/ Executing("VarDeclaration") /\ ctrl.node.initializer = Absent

\* the name and the value of the define that is about to happen
DefinedName ==
    IF Executing("FunctionDeclaration") \/ Executing("VarDeclaration") THEN ctrl.node.name
    ELSE Top.name

DefinedValue ==
    IF Executing("FunctionDeclaration") THEN FuncValue(ctrl.node)
    ELSE IF Executing("VarDeclaration") THEN Null
    ELSE ctrl.value

\* a declaration defines a name that the current environment already binds
Redeclaring ==
    /\ DefiningVar \/ Executing("FunctionDeclaration")
    /\ EnvHas(environment, DefinedName)

\* the top-level statement in execution, as the loop of interpret() counts
TopLevel == IF stack # <<>> /\ stack[1].k = "interpret" THEN stack[1].i ELSE 0

\* the define that is about to happen is that of a top-level VarDeclaration
\* which is the same as the statement executed right before it
SecondInARow ==
    /\ TopLevel >= 2
    /\ program[TopLevel].type = "VarDeclaration"
    /\ program[TopLevel] = program[TopLevel - 1]
    /\ DefiningVar
    /\ Len(stack) = IF ctrl.mode = "value" THEN 2 ELSE 1

\* the redeclaration does not fail and the name gets the new value, all
\* other bindings stay
Overwrites ==
    /\ ctrl' = Done
    /\ DOMAIN environment'.values = DOMAIN environment.values
    /\ \A n \in DOMAIN environment.values :
          EnvGet(environment', n) = IF n = DefinedName THEN DefinedValue
                                    ELSE EnvGet(environment, n)

\* C20 as stated: declaring a name that is already bound in the current
\* scope never fails and overwrites the binding, and executing the same
\* VarDeclaration twice in a row leaves the same environment as executing
\* it once.
C20_TwiceInARowIsOnce ==
    [][/\ Redeclaring => Overwrites
       /\ SecondInARow => environment' = environment]_vars

\* the initializer of the declaration has the same value whenever it is
\* evaluated: there is none, or it is a literal
ConstantInitializer(node) ==
    node.initializer = Absent \/ node.initializer.type = "Literal"

\* C20 as amended: declaring a name that is already bound in the current
\* scope never fails and overwrites the binding, and executing the same
\* VarDeclaration twice in a row leaves the same environment as executing
\* it once when its initializer is absent or a literal.
C20_RedeclarationOverwrites ==
    [][/\ Redeclaring => Overwrites
       /\ (SecondInARow /\ ConstantInitializer(program[TopLevel]))
             => environment' = environment]_vars

\* heAhe x = x + 1; is about to define x a second time, with a value other
\* than the one the first execution has bound
C20_Witness ==
    /\ SecondInARow
    /\ Redeclaring
    /\ ~ConstantInitializer(program[TopLevel])
    /\ DefinedValue # EnvGet(environment, DefinedName)

(***************************************************************************)
(* The print statement and the output sink.                                *)
(***************************************************************************)
\* the text a print statement makes of one value: "nil" for null
NilOrString(v) == IF v = Null THEN <<"n", "i", "l">> ELSE ToStringJS(v)

RECURSIVE Concatenation(_)
\* the texts of the values in order, nothing between them
Concatenation(values) ==
    IF values = <<>> THEN <<>>
    ELSE Concatenation(SubSeq(values, 1, Len(values) - 1)) \o NilOrString(values[Len(values)])

\* a print statement has got the value of one of its expressions
PrintGotValue == ctrl.mode = "value" /\ OnFrame("print")

\* it was the value of the last expression
PrintEnds == PrintGotValue /\ Top.i = Len(Top.expressions)

\* a step that calls the output sink
SinkCalled == output' # output

\* what a print statement does with the value of an expression: it goes on
\* with the next expression to the right and calls nothing, or, after the
\* last one, it calls the sink once with the concatenation and is over
PrintStep ==
    LET values == Append(Top.values, ctrl.value) IN
    IF Top.i < Len(Top.expressions)
    THEN /\ ctrl' = Eval(Top.expressions[Top.i + 1])
         /\ stack' = ReplaceTop([Top EXCEPT !.i = @ + 1, !.values = values])
         /\ output' = output
    ELSE /\ ctrl' = Done
         /\ stack' = Pop
         /\ output' = Append(output, Concatenation(values))

\* the sink is called by the last step of a print statement and by the
\* dakhava(...) call expression, one text at a time, and by nothing else
OneSinkCallPerPrint ==
    SinkCalled =>
        /\ Len(output') = Len(output) + 1
        /\ SubSeq(output', 1, Len(output)) = output
        /\ \/ PrintEnds
           \/ Calling /\ ctrl.node.callee.name = "dakhava"
           \/ ctrl.mode = "value" /\ OnFrame("dakhavaArgs")

LexicalErrorSources ==
    {UnterminatedStringSource, UnterminatedCommentSource, UnexpectedCharacterSource}

\* C22: on a source with a string that has no closing quote, with a block
\* comment that has no closing */ or with a character that starts no token,
\* tokenize() never returns a token list (it throws an Error).
C22_LexicalErrorsAreFatal ==
    (source.given /\ source.text \in LexicalErrorSources) => tokens.status # "ok"

(***************************************************************************)
(* Literals.                                                               *)
(***************************************************************************)
\* a text that is a number from its first to its last character: digits,
\* after an optional sign
FullyNumeric(s) ==
    \/ AllDigits(s)
    \/ s # <<>> /\ Head(s) \in {"-", "+"} /\ AllDigits(Tail(s))

\* C23: a string literal evaluates to a number only when its text is fully
\* numeric; every other literal, an empty or blank string literal included,
\* evaluates to its stored value as it is.
C23_OnlyNumericTextBecomesANumber ==
    [][Evaluating("Literal") =>
          ctrl' = Value(IF ctrl.node.value.t = "str" /\ FullyNumeric(ctrl.node.value.s)
                        THEN NumberOfString(ctrl.node.value.s)
                        ELSE ctrl.node.value)]_vars

(***************************************************************************)
(* The input built-in.                                                     *)
(***************************************************************************)
\* the interpreter waits for the Promise of the input provider
Suspended == ctrl.mode = "await"

\* dakhava "?"; heAhe x = ghye(); dakhava "=", x;
AskProgram == CHOOSE p \in InputPrograms : Len(p) = 3

\* the outputs of AskProgram come in program order around the input request
AskedInOrder ==
    (program = AskProgram /\ options.input = "async") =>
        /\ Suspended => output = << <<"?">> >>
        /\ (ctrl.mode = "end" /\ outcome = [status |-> "returned"] /\ errlog = <<>>) =>
              \E t \in InputTexts : output = << <<"?">>, <<"=">> \o t >>

\* C24: the interpreter is suspended only by a call of ghye whose provider
\* returned a Promise; while it is suspended no statement is executed, no
\* output is sent and nothing but the arrival of the provider's answer
\* happens; the text that arrives is the value of the call as it is, a
\* string even when it is numeric, and execution goes on from the call with
\* the same pending work, so that outputs and input requests occur in
\* program order.
C24_InputIsTheOnlySuspensionPoint ==
    /\ []AskedInOrder
    /\ [][/\ (Suspended' /\ ~Suspended) =>
               /\ Calling
               /\ ctrl.node.callee.name = "ghye"
               /\ options.input = "async"
          /\ Suspended =>
               /\ stack' = stack
               /\ output' = output
               /\ environment' = environment
               /\ errlog' = errlog
               /\ \/ ctrl'.mode = "value" /\ ctrl'.value \in {Str(t) : t \in InputTexts}
                  \/ ctrl'.mode = "throw"]_vars

\* a program that printed, asked, was given the numeric text and printed it
C24_Witness ==
    /\ program = AskProgram
    /\ options.input = "async"
    /\ ctrl.mode = "end"
    /\ output = << <<"?">>, <<"=", "7">> >>

(***************************************************************************)
(* Return.                                                                 *)
(***************************************************************************)
\* a ReturnException is on its way to the function call it belongs to
Returning ==
    /\ ctrl.mode = "throw"
    /\ ctrl.exc.cls = "ReturnException"
    /\ \E i \in 1..Len(stack) : stack[i].k = "callBody"

\* punhaKar (khara) { jar (khara) { paratDe 7; } dakhava "n"; }  dakhava "n";
NestedReturnBody ==
    CHOOSE body \in FuncBodies : Len(body) = 2 /\ body[1].type = "WhileStatement"

\* the function f of the program has the body NestedReturnBody
NestedReturnProgram ==
    /\ parsed.status = "given"
    /\ Len(program) = 4
    /\ program[2].type = "FunctionDeclaration"
    /\ program[2].body.body = NestedReturnBody

\* the statements after the return, in the loop and after it, never print
NothingAfterReturn ==
    NestedReturnProgram => \A i \in 1..Len(output) : output[i] # <<"n">>

\* C25: a ReturnStatement executed inside a function body, nested in if
\* blocks and while loops or not, ends the call at once: from the throw of
\* the ReturnException to the end of the call every step only leaves one
\* enclosing statement (no statement is executed, no loop tests its condition
\* again, nothing is printed), and the call has the returned value, which is
\* undefined for a return without value; a body that ends without return
\* gives the call the value undefined as well.
C25_ReturnEndsTheWholeCall ==
    /\ []NothingAfterReturn
    /\ [][/\ (Executing("ReturnStatement") /\ ctrl.node.value = Absent) =>
               ctrl' = Throw(ReturnException(Undefined))
          /\ (ctrl.mode = "value" /\ OnFrame("return")) =>
               ctrl' = Throw(ReturnException(ctrl.value))
          /\ Returning =>
               /\ output' = output
               /\ stack' = Pop
               /\ IF OnFrame("callBody")
                  THEN ctrl' = Value(ctrl.exc.value)
                  ELSE ctrl' = ctrl /\ environment' = environment
          /\ (ctrl.mode = "done" /\ OnFrame("callBody")) =>
               ctrl' = Value(Undefined) /\ stack' = Pop]_vars

\* the return of 7 from inside the if block leaves the loop of the body
C25_Witness ==
    /\ Returning
    /\ OnFrame("whileBody")
    /\ ctrl.exc.value = Num(7)
    /\ NestedReturnProgram

(***************************************************************************)
(* Precedence and associativity.                                           *)
(***************************************************************************)
\* the parser was given the expression of this tree, written by the
\* reference grammar, in a print statement
ParsesExpression(reference) ==
    /\ ~source.given
    /\ parsed.status \notin {"none", "given"}
    /\ tokens.list = reference.list

\* C26: for the operators == != > >= < <= + - * / % and unary -, the tree
\* that expression() builds is the tree of the reference grammar: parse()
\* returns, for the tokens written from a tree by the reference grammar
\* (levels in this order, binary levels left-associative, parentheses around
\* an operand of a lower level), that same tree; a - b - c is ((a - b) - c),
\* a + b * c is (a + (b * c)), a parenthesised expression is one operand.
C26_ExpressionTreeOfReferenceGrammar ==
    \A reference \in ReferencePrograms :
        ParsesExpression(reference) =>
            /\ parsed.status = "ok"
            /\ parsed.program.body = <<PrintStatement(<<reference.tree>>)>>

\* a - (b - c): parsed, the right operand is the parenthesised expression
C26_Witness ==
    LET tree == BinaryExpression(Identifier("a"), "-",
                    BinaryExpression(Identifier("b"), "-", Identifier("c")))
    IN  /\ ParsesExpression([tree |-> tree, list |-> ExpressionProgramTokens(tree)])
        /\ tokens.list[6].type = "LPAREN"
        /\ parsed.status = "ok"
        /\ parsed.program.body[1].expressions[1].right.type = "BinaryExpression"

(***************************************************************************)
(* The end of the program.                                                 *)
(***************************************************************************)
\* C27: when parse() returns a Program, the ";" of the end marker was the
\* last token before EOF: the parser stands at the EOF token, no token of
\* the list was left unread.
C27_NothingFollowsTheEndMarker ==
    Returned => Parser_peek(tokens.list, parsed.current).type = "EOF"

(***************************************************************************)
(* The words of incomplete compound keywords.                              *)
(***************************************************************************)
RECURSIVE Words(_, _, _)
\* the words of a text, in order: its longest runs of letters and digits
Words(text, word, words) ==
    CASE text = <<>> /\ word = <<>> -> words
      [] text = <<>> /\ word # <<>> -> Append(words, word)
      [] text # <<>> /\ isAlphaNumeric(Head(text)) ->
            Words(Tail(text), Append(word, Head(text)), words)
      [] text # <<>> /\ ~isAlphaNumeric(Head(text)) /\ word = <<>> ->
            Words(Tail(text), <<>>, words)
      [] OTHER -> Words(Tail(text), <<>>, Append(words, word))

\* the values of the tokens that are words
WordTokens(list) ==
    LET words == SelectSeq(list, LAMBDA token :
                     token.value # <<>> /\ isAlphaNumeric(Head(token.value)))
    IN  [i \in 1..Len(words) |-> words[i].value]

\* sources without strings and comments in which no compound keyword is complete
BrokenMarkerSources == {LoneWordsSource, OtherWordsSource, IncompleteMarkersSource}

\* C28: the lexer drops no word: on a source whose compound keywords are
\* incomplete (the first word alone, or the first two words), every word of
\* the source is the value of a token of its own, in the order of the source.
C28_NoWordIsDropped ==
    \A text \in BrokenMarkerSources :
        (Runs(text) /\ Tokenized) => WordTokens(tokens.list) = Words(text, <<>>, <<>>)

(***************************************************************************)
(* The position of a token.                                                *)
(***************************************************************************)
\* a turn of tokenize() that appends a token read from the source text
TokenAppended ==
    /\ tokens.status = "lexing"
    /\ tokens'.status = "lexing"
    /\ Len(tokens'.list) = Len(tokens.list) + 1

\* C29: every token that tokenize() reads from the source carries as line
\* and column the position of its first character, which is where the
\* lexer stands after the blanks before the token.
C29_TokenCarriesItsStart ==
    [][TokenAppended =>
          LET start == skipWhitespace(source.text, tokens.at)
              token == tokens'.list[Len(tokens'.list)]
          IN  token.line = start.line /\ token.column = start.column]_vars

(***************************************************************************)
(* C30: parse() comes to an end on every token list that ends with EOF.    *)
(***************************************************************************)
\* a result of the parser that started at index `from`: when it is not an
\* Error, the index has moved forward and is not behind the EOF token
Advances(list, from, result) ==
    result.ok => from < result.current /\ result.current <= Len(list) - 1

\* the token list ends inside the first block of the else-if program
EndsInsideBlock == tokens.list = SubSeq(ElseIfTokens, 1, 10) \o <<Token("EOF", <<>>)>>

\* C30: parse() terminates on every finite token list that ends with EOF, with
\* a Program or with one parse error: wherever in the list an iteration of a
\* statement loop calls declaration(), it throws or returns with the index
\* moved forward by at least one token, and neither it nor parse() itself
\* leaves the index behind the EOF token.
C30_ParseComesToAnEnd ==
    /\ tokens.status = "ok" /\ parsed.status = "none" =>
          /\ tokens.list[Len(tokens.list)].type = "EOF"
          /\ \A current \in 0..(Len(tokens.list) - 1) :
                Advances(tokens.list, current, declaration(tokens.list, current))
          /\ Advances(tokens.list, 0, parse(tokens.list))
    /\ tokens.status = "ok" /\ parsed.status # "none" =>
          /\ parsed.status \in {"ok", "error"}
          /\ parsed.status = "ok" =>
                0 < parsed.current /\ parsed.current <= Len(tokens.list) - 1

\* parse() has ended with the error of a block that EOF cut short
C30_Witness ==
    /\ tokens.status = "ok"
    /\ EndsInsideBlock
    /\ parsed.status = "error"
    /\ parsed.error.message = "Expected } after if block."

====
